---- MODULE Spec2Model ----
(***************************************************************************)
(* Model of the MCP client utilities of dedalus-sdk-typescript:            *)
(*   - CancellationManager   (src/lib/mcp-client/cancellation.ts)          *)
(*   - ProgressTracker       (progress.ts)                                 *)
(*   - TaskStatusManager and waitForTask (tasks.ts)                        *)
(*   - DedalusMCPClient      (src/lib/mcp-client/client.ts)                *)
(* JavaScript runs each synchronous section to completion, so one action   *)
(* models one synchronous section: a whole synchronous method, or the part *)
(* of an async method between two awaits.                                  *)
(***************************************************************************)
EXTENDS Integers, Sequences, FiniteSets, TLC

(***************************************************************************)
(* Bounds of the model.                                                    *)
(***************************************************************************)
MaxControllers == 3
MaxSubs == 2
MaxCalls == 1
MaxProgressCalls == 2
MaxOps == 1
MaxCloses == 2
MaxConnCloses == 1
MaxTime == 2
MaxPolls == 3
MaxPush == 1
MaxConnSubs == 1
MaxRequests == 1
MaxServers == 2
MaxEntries == 3
MaxAdds == 1
MaxMgrOps == 2
MaxRemoves == 1
MaxPages == 3
MaxTokens == 3
MaxChunks == 3
MaxRootOps == 2
MaxListeners == 2

(***************************************************************************)
(* Input domains.                                                          *)
(***************************************************************************)
\* An optional field is absent (undefined) or holds one value.
Absent == <<>>
Some(v) == <<v>>
NoId == "none"
ReqIds == {"req-1", "req-2"}
Tokens == {"tok-1", "tok-2"}
TaskIds == {"task-1", "task-2"}
Callbacks == {"cbA", "cbB", "cbThrow"}
ThrowingCallbacks == {"cbThrow"}
PushStates == {"running", "completed"}
ProgressValues == {0, 50}
TotalValues == {Absent, Some(0), Some(100)}
MessageValues == {Absent, Some("half")}
Notifications ==
  [progressToken : Tokens, progress : ProgressValues,
   total : TotalValues, message : MessageValues]
PushedTasks == [id : TaskIds, state : PushStates]

VARIABLES
  \* CancellationManager
  pendingRequests,   \* Map<RequestId, AbortController>: id |-> controller
  controllers,       \* AbortControllers created so far: controller i was
                     \* returned by create(controllers[i])
  aborted,           \* controllers whose signal is aborted
  cmCall,            \* last manager call <<op, id>>
  cmRet,             \* value returned by the last cancel()
  \* ProgressTracker
  progressCallbacks, \* Map<ProgressToken, ProgressCallback>
  ptCall,            \* name of the last tracker call
  ptNote,            \* notification given to the last handleProgress
  progressLog,       \* callback invocations made by the last handleProgress
  hpThrew,           \* the last handleProgress propagated an exception
  \* TaskStatusManager
  taskCallbacks,     \* Map<TaskId, Set>: task id |-> index of the Set object
  cbSets,            \* the Set objects ever allocated, each in insertion order
  closures,          \* unsubscribe closures handed out: [taskId, callback, set]
  tsmCall,           \* name of the last manager call
  tsmTask,           \* task given to the last handleStatus
  tsmClosure,        \* index of the unsubscribe closure invoked last
  delivered,         \* callback invocations made by the last handleStatus
  hsThrew,           \* the last handleStatus propagated an exception
  \* DedalusMCPClient
  now,               \* Date.now()
  cpc,               \* position of the factory: new, racing, timeoutClosing,
                     \* returned (client handed to the caller), failed
  connectError,      \* error the factory rejected with
  connected,         \* DedalusMCPClient.connected
  transportCloses,   \* number of calls of close() on the SDK client/transport
  closeAwaiting,     \* close() calls waiting for this.client.close()
  closeLog,          \* outcome of every close() call that has settled
  ptCounter,         \* ProgressTracker.counter
  cmCounter,         \* CancellationManager.counter
  progCalls,         \* callToolWithProgress / readResourceWithProgress calls
  cancOps,           \* callToolCancellable calls: [requestId, status]
  notifications,     \* requestIds of the notifications/cancelled handed to the
                     \* SDK client, in order
  connectionTimeout, \* this.options.connectionTimeout
  handshake,         \* promise of this.client.connect(transport): [state,
                     \* cause], state none, pending, resolved or rejected
  opCount,           \* request-issuing operations invoked on the client
  lastOp,            \* name of the last plain request operation invoked
  opError,           \* error of the last operation that ensureConnected stopped
  sdkCalls,          \* requests handed to the SDK client (this.client.*)
  \* MCPClientManager
  mgrOptions,        \* this.options: [made, parallelConnect, maxConcurrent]
  clients,           \* Map<string, DedalusMCPClient> in insertion order:
                     \* sequence of [name, client]
  attempts,          \* addServer calls: [name, origin, entry, factory, status,
                     \* error]; the client of attempt i is number i
  lcPc,              \* loadConfig call: idle, running (it awaits a chunk or
                     \* an addServer), returning (connectParallel has
                     \* returned, loadConfig's await has not resumed),
                     \* chunking (the chunk-building loop does not end),
                     \* resolved, rejected
  lcEntries,         \* Object.entries(config.mcpServers) of that call
  lcChunk,           \* parallel mode: index of the chunk being awaited
  mgrOp,             \* the manager's aggregated-API call in progress: [n, op,
                     \* arg, pos, client, acc, status, error, server,
                     \* callsBefore]; acc holds the entries collected by a
                     \* listAll* call, the replies received by readResource;
                     \* callsBefore is Len(connCalls) at the time of the call
  listed,            \* entries the last resolved listAll* call returned
  connCalls,         \* calls the manager made on connections: [client, op, arg]
  rmOps,             \* removeServer calls: [name, client, status, ret]
  closeOps,          \* closeAll and closeAllMCPClients calls: [by, status,
                     \* targets]; targets are the clients to close
  closeCalls,        \* close() calls made on connections by those: [client, by,
                     \* ref, status]; ref is the index of the call in rmOps
                     \* or closeOps
  \* aggregateMCPTools / routeMCPToolCall
  aggClients,        \* the clients array handed to aggregateMCPTools, each
                     \* client as [identity, tools]: what getServerInfo() and
                     \* listAllTools() give
  toolMap,           \* the Map returned, in insertion order: [key, client,
                     \* serverName, originalName]
  routed,            \* the last routeMCPToolCall: [key, error, client, arg]
  aggOp,             \* the aggregateMCPTools call: [pc, pos, map, reply]; pos
                     \* is the client whose listAllTools() is awaited, map
                     \* the Map filled so far
  \* DedalusMCPClient listAll* helpers
  pageOp,            \* the listAll* call in progress: [kind, status, requests,
                     \* pages, items]
  \* validateMCPConfig / addServer on entries of every shape
  cfgCalls,          \* the last call made, if any: [op, config, entry, ret, attempt];
                     \* config is the argument of validateMCPConfig, entry
                     \* that of addServer, attempt the index in attempts
  \* loadConfig / loadConfigFile with env and headers values
  launched,          \* the last configuration brought up: [via, given,
                     \* options]; given is the entry as the caller or the
                     \* file gave it, options what createClient handed to
                     \* the factory
  \* CancellationManager, with the fate of every controller
  released,          \* controllers that were stored under the id of a
                     \* complete(id) or cancel(id) call when it was made
  \* connectParallel's chunk-building loop
  chunking,          \* [pc, i, chunks]: pc none, building, built or
                     \* outOfMemory (the process has ended); i the loop
                     \* variable; chunks the arrays pushed so far, each as
                     \* the positions of its entries
  \* RootsHandler, standing alone or owned by a DedalusMCPClient
  rootsHandler,      \* none, standalone (new RootsHandler) or client (made
                     \* by the client's constructor)
  roots,             \* this.roots: Root records [uri, name]
  changeListeners,   \* this.changeListeners, in order
  rootClosures,      \* callback of every closure onRootsChanged returned
  rootOp,            \* the last setRoots / addRoot / removeRoot: [n, op, arg,
                     \* ret, error, called, sent]; called are the listeners
                     \* invoked, sent the roots/list_changed notifications
                     \* handed to the SDK client
  \* generateToken / generateRequestId
  tokens,            \* what generateToken returned, call after call
  requestIds,        \* what generateRequestId returned, call after call
  \* waitForTask
  wpc,               \* idle, polling (await getTask), sleeping (await sleep),
                     \* result (the promise returned by getTaskResult), done
  wTask,             \* taskId argument
  wOpts,             \* options: [onStatus, timeout, signal, pollInterval]
  startTime,         \* const startTime = Date.now()
  wakeAt,            \* when the setTimeout of sleep() fires
  signalAborted,     \* signal.aborted of the caller's AbortController
  abortPhase,        \* where waitForTask stood when abort() was called
  wSnaps,            \* task states returned by getTask so far
  getTaskCalls,      \* number of client.getTask calls
  getTaskResultCalls,\* number of client.getTaskResult calls
  loopLog,           \* tasks onStatus was called with by the polling loop
  pushDeliveries,    \* onStatus calls made by the TaskStatusManager
  wUnsub,            \* closure returned by client.onTaskStatus (0: none)
  unsubCalls,        \* calls of that closure made by waitForTask
  resultSent,        \* payload the client's getTaskResult resolved with
  wOutcome           \* how the promise settled: [kind, taskId, timeoutMs, value]

cmVars == <<pendingRequests, controllers, aborted, cmCall, cmRet>>
ptVars == <<progressCallbacks, ptCall, ptNote, progressLog, hpThrew>>
tsmVars ==
  <<taskCallbacks, cbSets, closures, tsmCall, tsmTask, tsmClosure, delivered, hsThrew>>
connVars ==
  <<now, cpc, connectError, connected, transportCloses, closeAwaiting, closeLog,
    ptCounter, cmCounter, progCalls, cancOps, notifications>>
waitVars ==
  <<wpc, wTask, wOpts, startTime, wakeAt, signalAborted, abortPhase, wSnaps,
    getTaskCalls, getTaskResultCalls, loopLog, pushDeliveries, wUnsub, unsubCalls,
    resultSent, wOutcome>>
lifeVars == <<connectionTimeout, handshake, opCount, lastOp, opError, sdkCalls>>
mgrVars == <<mgrOptions, clients, attempts, lcPc, lcEntries, lcChunk>>
routeVars == <<mgrOp, listed, connCalls>>
regVars == <<rmOps, closeOps, closeCalls>>
aggVars == <<aggClients, toolMap, routed, aggOp>>
pageVars == <<pageOp>>
tokVars == <<tokens, requestIds>>
cfgVars == <<cfgCalls>>
envVars == <<launched>>
relVars == <<released>>
chunkVars == <<chunking>>
rootVars == <<rootsHandler, roots, changeListeners, rootClosures, rootOp>>
utilVars == <<tokVars, cfgVars, envVars, relVars, chunkVars, rootVars>>
apiVars == <<routeVars, regVars, aggVars, pageVars, utilVars>>
vars == <<cmVars, ptVars, tsmVars, connVars, waitVars, lifeVars, mgrVars, apiVars>>

(***************************************************************************)
(* JavaScript Map and Set, as far as the code uses them.                   *)
(***************************************************************************)
EmptyMap == [k \in {} |-> 0]
MapSet(m, k, v) == [x \in (DOMAIN m) \cup {k} |-> IF x = k THEN v ELSE m[x]]
MapDelete(m, k) == [x \in (DOMAIN m) \ {k} |-> m[x]]
MapHas(m, k) == k \in DOMAIN m

Range(s) == {s[i] : i \in DOMAIN s}
SetAdd(s, e) == IF e \in Range(s) THEN s ELSE Append(s, e)
SetDelete(s, e) == SelectSeq(s, LAMBDA x : x # e)

\* A user callback either returns or throws; which one is a property of the
\* callback the caller supplied.
CallbackThrows(cb) == cb \in ThrowingCallbacks

(***************************************************************************)
(* CancellationManager                                                     *)
(***************************************************************************)
\* create(requestId): a new AbortController is stored under requestId.
create(pending, ctls, requestId) ==
  [pending |-> MapSet(pending, requestId, Len(ctls) + 1),
   controllers |-> Append(ctls, requestId)]

\* complete(requestId): removes the entry, aborts nothing.
complete(pending, requestId) == MapDelete(pending, requestId)

\* cancel with the entry left in the map (a removal that was forgotten).
cancel_KeepsEntry(pending, abortedCtl, requestId) ==
  IF MapHas(pending, requestId)
    THEN [ret |-> TRUE, pending |-> pending,
          aborted |-> abortedCtl \cup {pending[requestId]}]
    ELSE [ret |-> FALSE, pending |-> pending, aborted |-> abortedCtl]

\* cancel(requestId): aborts and removes a pending entry and returns true;
\* returns false when there is no entry.
cancel(pending, abortedCtl, requestId) ==
  IF MapHas(pending, requestId)
    THEN [ret |-> TRUE, pending |-> MapDelete(pending, requestId),
          aborted |-> abortedCtl \cup {pending[requestId]}]
    ELSE [ret |-> FALSE, pending |-> pending, aborted |-> abortedCtl]

isPending(pending, requestId) == MapHas(pending, requestId)

\* cancelAll(): aborts every stored controller, then empties the map.
cancelAll(pending, abortedCtl) ==
  [pending |-> EmptyMap, aborted |-> abortedCtl \cup Range(pending)]

CMCreate(id) ==
  /\ Len(controllers) < MaxControllers
  /\ LET r == create(pendingRequests, controllers, id)
     IN /\ pendingRequests' = r.pending
        /\ controllers' = r.controllers
  /\ cmCall' = <<"create", id>>
  /\ UNCHANGED <<aborted, cmRet>>
  /\ UNCHANGED <<ptVars, tsmVars, connVars, waitVars>>
  /\ UNCHANGED <<lifeVars, mgrVars, apiVars>>

CMComplete(id) ==
  /\ pendingRequests' = complete(pendingRequests, id)
  /\ cmCall' = <<"complete", id>>
  /\ UNCHANGED <<controllers, aborted, cmRet>>
  /\ UNCHANGED <<ptVars, tsmVars, connVars, waitVars>>
  /\ UNCHANGED <<lifeVars, mgrVars, apiVars>>

CMCancel(id) ==
  /\ LET r == cancel(pendingRequests, aborted, id)
     IN /\ pendingRequests' = r.pending
        /\ aborted' = r.aborted
        /\ cmRet' = r.ret
  /\ cmCall' = <<"cancel", id>>
  /\ UNCHANGED controllers
  /\ UNCHANGED <<ptVars, tsmVars, connVars, waitVars>>
  /\ UNCHANGED <<lifeVars, mgrVars, apiVars>>

CMCancelAll ==
  /\ LET r == cancelAll(pendingRequests, aborted)
     IN /\ pendingRequests' = r.pending
        /\ aborted' = r.aborted
  /\ cmCall' = <<"cancelAll", NoId>>
  /\ UNCHANGED <<controllers, cmRet>>
  /\ UNCHANGED <<ptVars, tsmVars, connVars, waitVars>>
  /\ UNCHANGED <<lifeVars, mgrVars, apiVars>>

(***************************************************************************)
(* ProgressTracker                                                         *)
(***************************************************************************)
register(cbs, token, callback) == MapSet(cbs, token, callback)
unregister(cbs, token) == MapDelete(cbs, token)

\* handleProgress with absent fields defaulted to 0 / "" (a coercion the
\* code does not make).
handleProgress_Coerces(cbs, n) ==
  IF MapHas(cbs, n.progressToken)
    THEN [log |-> << [cb |-> cbs[n.progressToken],
                      info |-> [progress |-> n.progress,
                                total |-> IF n.total = Absent THEN Some(0) ELSE n.total,
                                message |-> IF n.message = Absent THEN Some("") ELSE n.message]] >>,
          threw |-> CallbackThrows(cbs[n.progressToken])]
    ELSE [log |-> <<>>, threw |-> FALSE]

\* handleProgress(notification): the callback of the token, if any, is called
\* once with {progress, total, message}; its exception is not caught.
handleProgress(cbs, n) ==
  IF MapHas(cbs, n.progressToken)
    THEN [log |-> << [cb |-> cbs[n.progressToken],
                      info |-> [progress |-> n.progress,
                                total |-> n.total,
                                message |-> n.message]] >>,
          threw |-> CallbackThrows(cbs[n.progressToken])]
    ELSE [log |-> <<>>, threw |-> FALSE]

PTRegister(token, cb) ==
  /\ progressCallbacks' = register(progressCallbacks, token, cb)
  /\ ptCall' = "register"
  /\ UNCHANGED <<ptNote, progressLog, hpThrew>>
  /\ UNCHANGED <<cmVars, tsmVars, connVars, waitVars>>
  /\ UNCHANGED <<lifeVars, mgrVars, apiVars>>

PTUnregister(token) ==
  /\ progressCallbacks' = unregister(progressCallbacks, token)
  /\ ptCall' = "unregister"
  /\ UNCHANGED <<ptNote, progressLog, hpThrew>>
  /\ UNCHANGED <<cmVars, tsmVars, connVars, waitVars>>
  /\ UNCHANGED <<lifeVars, mgrVars, apiVars>>

PTHandleProgress(n) ==
  /\ LET r == handleProgress(progressCallbacks, n)
     IN /\ progressLog' = r.log
        /\ hpThrew' = r.threw
  /\ ptCall' = "handleProgress"
  /\ ptNote' = n
  /\ UNCHANGED progressCallbacks
  /\ UNCHANGED <<cmVars, tsmVars, connVars, waitVars>>
  /\ UNCHANGED <<lifeVars, mgrVars, apiVars>>

\* The handler that setupNotificationHandlers installs for
\* notifications/progress: it copies the four fields of params into a
\* notification and calls handleProgress, with no try/catch of its own.
progressNotificationHandler(cbs, params) ==
  handleProgress(cbs, [progressToken |-> params.progressToken,
                       progress |-> params.progress,
                       total |-> params.total,
                       message |-> params.message])

\* The SDK client delivers a notifications/progress to that handler.
PTNotification(params) ==
  /\ LET r == progressNotificationHandler(progressCallbacks, params)
     IN /\ progressLog' = r.log
        /\ hpThrew' = r.threw
  /\ ptCall' = "notification"
  /\ ptNote' = params
  /\ UNCHANGED progressCallbacks
  /\ UNCHANGED <<cmVars, tsmVars, connVars, waitVars>>
  /\ UNCHANGED <<lifeVars, mgrVars, apiVars>>

PTClear ==
  /\ progressCallbacks' = EmptyMap
  /\ ptCall' = "clear"
  /\ UNCHANGED <<ptNote, progressLog, hpThrew>>
  /\ UNCHANGED <<cmVars, tsmVars, connVars, waitVars>>
  /\ UNCHANGED <<lifeVars, mgrVars, apiVars>>

(***************************************************************************)
(* TaskStatusManager                                                       *)
(***************************************************************************)
\* subscribe(taskId, callback): the Set of the task (a new one if the map has
\* none) gets the callback; the closure returned captures that Set object.
subscribe(tc, sets, cls, taskId, callback) ==
  LET fresh == ~MapHas(tc, taskId)
      sid == IF fresh THEN Len(sets) + 1 ELSE tc[taskId]
      sets1 == IF fresh THEN Append(sets, <<>>) ELSE sets
  IN [tc |-> IF fresh THEN MapSet(tc, taskId, sid) ELSE tc,
      sets |-> [sets1 EXCEPT ![sid] = SetAdd(sets1[sid], callback)],
      cls |-> Append(cls, [taskId |-> taskId, callback |-> callback, set |-> sid])]

\* The closure returned by subscribe: deletes the callback from the captured
\* Set and, when that Set is empty, deletes the map entry of the task id.
unsubscribe(tc, sets, cl) ==
  LET s == SetDelete(sets[cl.set], cl.callback)
  IN [tc |-> IF Len(s) = 0 THEN MapDelete(tc, cl.taskId) ELSE tc,
      sets |-> [sets EXCEPT ![cl.set] = s]]

RECURSIVE DispatchEach(_, _)
\* for (const callback of callbacks) { try { callback(task) } catch {} }
DispatchEach(cbs, task) ==
  IF cbs = <<>> THEN <<>>
  ELSE << <<Head(cbs), task>> >> \o DispatchEach(Tail(cbs), task)

RECURSIVE DispatchUntilThrow(_, _)
\* the same loop without the try/catch: it ends at the first exception.
DispatchUntilThrow(cbs, task) ==
  IF cbs = <<>> THEN [log |-> <<>>, threw |-> FALSE]
  ELSE IF CallbackThrows(Head(cbs))
    THEN [log |-> << <<Head(cbs), task>> >>, threw |-> TRUE]
    ELSE LET r == DispatchUntilThrow(Tail(cbs), task)
         IN [log |-> << <<Head(cbs), task>> >> \o r.log, threw |-> r.threw]

handleStatus_NoCatch(tc, sets, task) ==
  IF MapHas(tc, task.id)
    THEN DispatchUntilThrow(sets[tc[task.id]], task)
    ELSE [log |-> <<>>, threw |-> FALSE]

\* handleStatus(task): every callback of the Set of task.id is called with the
\* task; an exception of a callback is caught and ignored.
handleStatus(tc, sets, task) ==
  IF MapHas(tc, task.id)
    THEN [log |-> DispatchEach(sets[tc[task.id]], task), threw |-> FALSE]
    ELSE [log |-> <<>>, threw |-> FALSE]

hasSubscribers(tc, sets, taskId) ==
  MapHas(tc, taskId) /\ Len(sets[tc[taskId]]) > 0

TSMSubscribe(taskId, cb) ==
  /\ Len(closures) < MaxSubs
  /\ LET r == subscribe(taskCallbacks, cbSets, closures, taskId, cb)
     IN /\ taskCallbacks' = r.tc
        /\ cbSets' = r.sets
        /\ closures' = r.cls
  /\ tsmCall' = "subscribe"
  /\ UNCHANGED <<tsmTask, tsmClosure, delivered, hsThrew>>
  /\ UNCHANGED <<cmVars, ptVars, connVars, waitVars>>
  /\ UNCHANGED <<lifeVars, mgrVars, apiVars>>

TSMUnsubscribe(k) ==
  /\ k \in 1..Len(closures)
  /\ LET r == unsubscribe(taskCallbacks, cbSets, closures[k])
     IN /\ taskCallbacks' = r.tc
        /\ cbSets' = r.sets
  /\ tsmCall' = "unsubscribe"
  /\ tsmClosure' = k
  /\ UNCHANGED <<closures, tsmTask, delivered, hsThrew>>
  /\ UNCHANGED <<cmVars, ptVars, connVars, waitVars>>
  /\ UNCHANGED <<lifeVars, mgrVars, apiVars>>

TSMHandleStatus(task) ==
  /\ LET r == handleStatus(taskCallbacks, cbSets, task)
     IN /\ delivered' = r.log
        /\ hsThrew' = r.threw
  /\ tsmCall' = "handleStatus"
  /\ tsmTask' = task
  /\ UNCHANGED <<taskCallbacks, cbSets, closures, tsmClosure>>
  /\ UNCHANGED <<cmVars, ptVars, connVars, waitVars>>
  /\ UNCHANGED <<lifeVars, mgrVars, apiVars>>

TSMClear ==
  /\ taskCallbacks' = EmptyMap
  /\ tsmCall' = "clear"
  /\ UNCHANGED <<cbSets, closures, tsmTask, tsmClosure, delivered, hsThrew>>
  /\ UNCHANGED <<cmVars, ptVars, connVars, waitVars>>
  /\ UNCHANGED <<lifeVars, mgrVars, apiVars>>

(***************************************************************************)
(* DedalusMCPClient                                                        *)
(***************************************************************************)
NoToken == "none"
ConnCallbacks == {"cbA"}
ConnTaskIds == {"task-1"}

\* A token made of the timestamp alone.
generateToken_NoCounter(t, c) == "progress-" \o ToString(t)
\* `progress-${Date.now()}-${this.counter++}`
generateToken(t, c) == "progress-" \o ToString(t) \o "-" \o ToString(c)
\* `req-${Date.now()}-${this.counter++}`
generateRequestId(t, c) == "req-" \o ToString(t) \o "-" \o ToString(c)

\* waitForTask's default pollInterval, in milliseconds.
DefaultPollInterval == 1000

\* Request ids a caller may pass to cancelRequest: the ids the manager can
\* have generated (the clock stands at 0 while the connection is exercised),
\* and one it never generated.
KnownRequestIds ==
  {generateRequestId(0, c) : c \in 0..(MaxOps - 1)} \cup {"req-unknown"}

\* Time passes; Date.now() is observed in steps of the default poll interval.
Tick ==
  /\ now < MaxTime * DefaultPollInterval
  /\ now' = now + DefaultPollInterval
  /\ UNCHANGED <<cpc, connectError, connected, transportCloses, closeAwaiting,
                 closeLog, ptCounter, cmCounter, progCalls, cancOps, notifications>>
  /\ UNCHANGED <<cmVars, ptVars, tsmVars, waitVars>>
  /\ UNCHANGED <<lifeVars, mgrVars, apiVars>>

\* const DEFAULT_CONNECTION_TIMEOUT = 30000
DEFAULT_CONNECTION_TIMEOUT == 30000

\* options.connectionTimeout as a caller may give it to a factory.
ConnectionTimeoutOptions == {Absent, Some(0), Some(DefaultPollInterval)}

\* What this.client.connect(transport) may reject with: an Error, or a value
\* that is not an Error.
HandshakeCauses ==
  {[isError |-> TRUE, text |-> "ECONNREFUSED"], [isError |-> FALSE, text |-> "boom"]}

\* The promise of this.client.connect(transport) and what it rejected with.
Handshake(state, cause) == [state |-> state, cause |-> cause]

NoError == [kind |-> "none", timeoutMs |-> Absent, message |-> "", cause |-> Absent]

\* new MCPTimeoutError('Connection timed out', this.options.connectionTimeout)
MCPTimeoutError(timeoutMs) ==
  [kind |-> "MCPTimeoutError", timeoutMs |-> Some(timeoutMs),
   message |-> "Connection timed out", cause |-> Absent]

\* MCPConnectionError whose cause is dropped.
WrapConnectFailure_NoCause(error) ==
  [kind |-> "MCPConnectionError", timeoutMs |-> Absent,
   message |-> "Failed to connect to MCP server", cause |-> Absent]

\* new MCPConnectionError(`Failed to connect to MCP server: ${error instanceof
\* Error ? error.message : String(error)}`, error instanceof Error ? error :
\* undefined)
WrapConnectFailure(error) ==
  [kind |-> "MCPConnectionError", timeoutMs |-> Absent,
   message |-> "Failed to connect to MCP server: " \o error.text,
   cause |-> IF error.isError THEN Some(error) ELSE Absent]

\* The constructor followed by connect(), up to the await of the race:
\* connectionTimeout is options.connectionTimeout ?? DEFAULT_CONNECTION_TIMEOUT,
\* the handshake and the timeout timer are started.
Connect(timeoutOption) ==
  /\ cpc = "new"
  /\ connectionTimeout' = IF timeoutOption = Absent THEN DEFAULT_CONNECTION_TIMEOUT
                                                    ELSE timeoutOption[1]
  /\ cpc' = IF connected THEN "returned" ELSE "racing"
  /\ handshake' = IF connected THEN handshake ELSE Handshake("pending", Absent)
  /\ UNCHANGED <<now, connectError, connected, transportCloses, closeAwaiting,
                 closeLog, ptCounter, cmCounter, progCalls, cancOps, notifications>>
  /\ UNCHANGED <<opCount, lastOp, opError, sdkCalls>>
  /\ UNCHANGED <<mgrVars, apiVars>>
  /\ UNCHANGED <<cmVars, ptVars, tsmVars, waitVars>>

\* DedalusMCPClient.fromStdio(options): createStdioTransport does not look
\* at the command; the client is constructed and connect() is entered.
FromStdio(timeoutOption) == Connect(timeoutOption)

\* fromStdio with the default options.
ConnectBegin == FromStdio(Absent)

\* The characters of the urls considered: lower-case letters, ':', '/' and
\* the space.
UrlLetters ==
  {"a", "b", "c", "d", "e", "f", "g", "h", "i", "j", "k", "l", "m", "n", "o", "p",
   "q", "r", "s", "t", "u", "v", "w", "x", "y", "z"}
UrlChars == UrlLetters \cup {":", "/", " "}

\* Values of options.url, as sequences of these characters: http URLs with
\* and without host, with a port separator, with spaces around and inside;
\* text that is no URL, the empty string, a path; file URLs; URLs of a
\* scheme that is not special.
HttpUrls ==
  {<<"h", "t", "t", "p", ":", "/", "/", "h", "/", "m">>,
   <<"n", "o", "t", " ", "a", " ", "u", "r", "l">>,
   <<>>,
   <<"/", "m", "c", "p">>,
   <<" ", "h", "t", "t", "p", ":", "/", "/", "h", "/", "m">>,
   <<"h", "t", "t", "p", ":", "/", "/", "h", " ", "m">>,
   <<"h", "t", "t", "p", ":", "/", "/">>,
   <<"h", "t", "t", "p", ":", "h">>,
   <<"h", "t", "t", "p", ":", "/", "/", "h", ":">>,
   <<"h", "t", "t", "p", ":", "/", "/", "h", ":", "m">>,
   <<"f", "i", "l", "e", ":", "/", "/", "/">>,
   <<"f", "i", "l", "e", ":">>,
   <<"f", "i", "l", "e", ":", "/", "/", "h", " ", "m">>,
   <<"f", "i", "l", "e", ":", "/", "/", "c", ":", "/", "m">>,
   <<"p", ":">>,
   <<"p", ":", " ", "x">>,
   <<"p", ":", "/", "/">>,
   <<"p", ":", "/", "/", ":", "m">>,
   <<"p", ":", "/", "/", "h", " ", "m">>}

\* The position of the first element of s, from position i on, that is in
\* set; Len(s) + 1 when there is none.
FirstIn(s, i, set) ==
  LET found == {j \in i..Len(s) : s[j] \in set}
  IN IF found = {} THEN Len(s) + 1 ELSE CHOOSE j \in found : \A k \in found : j <= k

\* The URL parser strips leading and trailing spaces from its input.
StripSpaces(url) ==
  LET kept == {i \in DOMAIN url : url[i] # " "}
  IN IF kept = {} THEN <<>>
     ELSE SubSeq(url, CHOOSE i \in kept : \A k \in kept : i <= k,
                      CHOOSE i \in kept : \A k \in kept : k <= i)

\* The special schemes other than file.
SpecialSchemes ==
  {<<"h", "t", "t", "p">>, <<"h", "t", "t", "p", "s">>, <<"w", "s">>,
   <<"w", "s", "s">>, <<"f", "t", "p">>}

\* The host and port of an authority (the text up to the first '/'): the
\* host ends at the first ':'; it must not hold a space, must not be empty
\* before a ':' or in a special URL, and behind the ':' only digits may
\* follow, of which these texts have none.
AuthorityParses(authority, special) ==
  LET colon == FirstIn(authority, 1, {":"})
      host == SubSeq(authority, 1, colon - 1)
  IN /\ \A i \in DOMAIN host : host[i] # " "
     /\ IF colon <= Len(authority)
          THEN host # <<>> /\ colon = Len(authority)
          ELSE special => host # <<>>

\* The host of a file URL (the text between "//" and the next '/'): empty,
\* a drive letter with its ':', which is taken as the start of the path, or
\* a domain, in which neither ':' nor a space may occur.
FileHostParses(host) ==
  \/ host = <<>>
  \/ Len(host) = 2 /\ host[1] \in UrlLetters /\ host[2] = ":"
  \/ \A i \in DOMAIN host : host[i] \notin {":", " "}

\* new URL(url), without a base, returns a URL (TRUE) or throws TypeError
\* (FALSE), for a text over UrlChars. The text, its outer spaces stripped,
\* must begin with a scheme (letters) and ':'. Behind a special scheme all
\* slashes are skipped and an authority must follow; behind file a host
\* follows "//" only; behind another scheme an authority follows "//" and
\* anything else is an opaque path.
ParsesAsURL(url) ==
  LET input == StripSpaces(url)
      colon == FirstIn(input, 1, {":", "/", " "})
      scheme == SubSeq(input, 1, colon - 1)
      rest == SubSeq(input, colon + 1, Len(input))
      slashes == Len(rest) >= 2 /\ rest[1] = "/" /\ rest[2] = "/"
      afterSlashes == SubSeq(rest, 3, Len(rest))
      skipped == SubSeq(rest, FirstIn(rest, 1, UrlChars \ {"/"}), Len(rest))
      upToSlash(t) == SubSeq(t, 1, FirstIn(t, 1, {"/"}) - 1)
  IN /\ colon >= 2
     /\ colon <= Len(input)
     /\ input[colon] = ":"
     /\ IF scheme = <<"f", "i", "l", "e">>
          THEN slashes => FileHostParses(upToSlash(afterSlashes))
        ELSE IF scheme \in SpecialSchemes
          THEN AuthorityParses(upToSlash(skipped), TRUE)
        ELSE slashes => AuthorityParses(upToSlash(afterSlashes), FALSE)

\* What new URL throws.
InvalidURLError ==
  [kind |-> "TypeError", timeoutMs |-> Absent, message |-> "Invalid URL",
   cause |-> Absent]

\* DedalusMCPClient.fromHTTP(options): createHTTPTransport runs
\* new URL(options.url) before the client is constructed. When that throws,
\* the factory rejects with the TypeError itself: no client, no handshake,
\* no timer. Otherwise the client is constructed and connect() is entered.
FromHTTP(timeoutOption, url) ==
  /\ cpc = "new"
  /\ IF ParsesAsURL(url)
       THEN Connect(timeoutOption)
       ELSE /\ cpc' = "noClient"
            /\ connectError' = InvalidURLError
            /\ UNCHANGED <<now, connected, transportCloses, closeAwaiting, closeLog,
                           ptCounter, cmCounter, progCalls, cancOps, notifications>>
            /\ UNCHANGED <<lifeVars, mgrVars, apiVars>>
            /\ UNCHANGED <<cmVars, ptVars, tsmVars, waitVars>>

\* The handshake wins the race: connected = true, the factory returns.
HandshakeResolves ==
  /\ cpc = "racing"
  /\ handshake' = Handshake("resolved", Absent)
  /\ connected' = TRUE
  /\ cpc' = "returned"
  /\ UNCHANGED <<now, connectError, transportCloses, closeAwaiting,
                 closeLog, ptCounter, cmCounter, progCalls, cancOps, notifications>>
  /\ UNCHANGED <<connectionTimeout, opCount, lastOp, opError, sdkCalls>>
  /\ UNCHANGED <<mgrVars, apiVars>>
  /\ UNCHANGED <<cmVars, ptVars, tsmVars, waitVars>>

\* The handshake rejects first: MCPConnectionError wrapping the cause.
HandshakeRejects(cause) ==
  /\ cpc = "racing"
  /\ handshake' = Handshake("rejected", Some(cause))
  /\ cpc' = "failed"
  /\ connectError' = WrapConnectFailure(cause)
  /\ UNCHANGED <<now, connected, transportCloses, closeAwaiting,
                 closeLog, ptCounter, cmCounter, progCalls, cancOps, notifications>>
  /\ UNCHANGED <<connectionTimeout, opCount, lastOp, opError, sdkCalls>>
  /\ UNCHANGED <<mgrVars, apiVars>>
  /\ UNCHANGED <<cmVars, ptVars, tsmVars, waitVars>>

\* The timer wins the race: the catch block awaits transport.close().
ConnectTimeout ==
  /\ cpc = "racing"
  /\ cpc' = "timeoutClosing"
  /\ transportCloses' = transportCloses + 1
  /\ UNCHANGED <<now, connectError, connected, closeAwaiting,
                 closeLog, ptCounter, cmCounter, progCalls, cancOps, notifications>>
  /\ UNCHANGED <<lifeVars, mgrVars, apiVars>>
  /\ UNCHANGED <<cmVars, ptVars, tsmVars, waitVars>>

\* connect() with the error of transport.close() thrown on.
ConnectTimeoutClosed_Rethrows(ok) ==
  /\ cpc = "timeoutClosing"
  /\ cpc' = "failed"
  /\ connectError' = IF ok THEN MCPTimeoutError(connectionTimeout)
                           ELSE WrapConnectFailure([isError |-> TRUE, text |-> "close"])
  /\ UNCHANGED <<now, connected, transportCloses, closeAwaiting,
                 closeLog, ptCounter, cmCounter, progCalls, cancOps, notifications>>
  /\ UNCHANGED <<lifeVars, mgrVars, apiVars>>
  /\ UNCHANGED <<cmVars, ptVars, tsmVars, waitVars>>

\* transport.close() settles (its error is ignored): the MCPTimeoutError of
\* the timer is rethrown.
ConnectTimeoutClosed(ok) ==
  /\ cpc = "timeoutClosing"
  /\ cpc' = "failed"
  /\ connectError' = MCPTimeoutError(connectionTimeout)
  /\ UNCHANGED <<now, connected, transportCloses, closeAwaiting,
                 closeLog, ptCounter, cmCounter, progCalls, cancOps, notifications>>
  /\ UNCHANGED <<lifeVars, mgrVars, apiVars>>
  /\ UNCHANGED <<cmVars, ptVars, tsmVars, waitVars>>

\* The handshake settles after it has lost the race: nothing awaits it any
\* more.
LateHandshake(ok, cause) ==
  /\ cpc \in {"timeoutClosing", "failed"}
  /\ handshake.state = "pending"
  /\ handshake' = IF ok THEN Handshake("resolved", Absent)
                       ELSE Handshake("rejected", Some(cause))
  /\ UNCHANGED <<connectionTimeout, opCount, lastOp, opError, sdkCalls>>
  /\ UNCHANGED <<mgrVars, apiVars>>
  /\ UNCHANGED <<cmVars, ptVars, tsmVars, connVars, waitVars>>

\* ensureConnected with the test of this.connected left out.
ensureConnected_NoCheck(isConnected) == "none"

\* ensureConnected(): throws MCPConnectionError when this.connected is false.
ensureConnected(isConnected) == IF isConnected THEN "none" ELSE "MCPConnectionError"

\* The error of the last operation that threw: an operation that throws
\* nothing leaves it as it is.
Thrown(before, error) == IF error = "none" THEN before ELSE error

\* The operations that call ensureConnected() and then hand one request to
\* the SDK client.
RequestOps ==
  {"listTools", "callTool", "listResources", "listResourceTemplates", "readResource",
   "subscribeToResource", "unsubscribeFromResource", "listPrompts", "getPrompt",
   "completePromptArgument", "completeResourceArgument", "setLogLevel", "ping",
   "getTask", "getTaskResult", "listTasks", "cancelTask", "callToolAsTask"}

\* A request operation that reconnects a disconnected client instead of
\* throwing.
Request_Reconnects(op) ==
  /\ cpc = "returned"
  /\ opCount < MaxRequests
  /\ opCount' = opCount + 1
  /\ lastOp' = op
  /\ connected' = TRUE
  /\ sdkCalls' = sdkCalls + 1
  /\ UNCHANGED <<connectionTimeout, handshake, opError>>
  /\ UNCHANGED <<now, cpc, connectError, transportCloses, closeAwaiting, closeLog,
                 ptCounter, cmCounter, progCalls, cancOps, notifications>>
  /\ UNCHANGED <<mgrVars, apiVars>>
  /\ UNCHANGED <<cmVars, ptVars, tsmVars, waitVars>>

\* One of RequestOps is invoked: ensureConnected() throws, or the request is
\* handed to the SDK client (its settling changes nothing in the client).
Request(op) ==
  /\ cpc = "returned"
  /\ opCount < MaxRequests
  /\ opCount' = opCount + 1
  /\ lastOp' = op
  /\ opError' = Thrown(opError, ensureConnected(connected))
  /\ sdkCalls' = IF ensureConnected(connected) = "none" THEN sdkCalls + 1 ELSE sdkCalls
  /\ UNCHANGED <<connectionTimeout, handshake>>
  /\ UNCHANGED <<mgrVars, apiVars>>
  /\ UNCHANGED <<cmVars, ptVars, tsmVars, connVars, waitVars>>

\* close(), up to its await: returns at once when not connected, otherwise
\* calls this.client.close() and waits for it.
CloseCall ==
  /\ cpc = "returned"
  /\ Len(closeLog) + closeAwaiting < MaxCloses
  /\ IF ~connected
       THEN /\ closeLog' = Append(closeLog, "noop")
            /\ UNCHANGED <<transportCloses, closeAwaiting>>
       ELSE /\ transportCloses' = transportCloses + 1
            /\ closeAwaiting' = closeAwaiting + 1
            /\ UNCHANGED closeLog
  /\ UNCHANGED <<now, cpc, connectError, connected, ptCounter, cmCounter,
                 progCalls, cancOps, notifications>>
  /\ UNCHANGED <<cmVars, ptVars, tsmVars, waitVars>>
  /\ UNCHANGED <<lifeVars, mgrVars, apiVars>>

\* close() among the requests of a connection in use: up to MaxConnCloses
\* calls.
ConnCloseCall ==
  /\ Len(closeLog) + closeAwaiting < MaxConnCloses
  /\ CloseCall

\* close() whose cleanup follows the await instead of standing in a finally
\* block: a failing transport close skips it.
CloseSettle_NoFinally(ok) ==
  /\ closeAwaiting > 0
  /\ closeAwaiting' = closeAwaiting - 1
  /\ closeLog' = Append(closeLog, IF ok THEN "resolved" ELSE "rejected")
  /\ IF ok
       THEN /\ connected' = FALSE
            /\ progressCallbacks' = EmptyMap
            /\ pendingRequests' = cancelAll(pendingRequests, aborted).pending
            /\ aborted' = cancelAll(pendingRequests, aborted).aborted
            /\ taskCallbacks' = EmptyMap
       ELSE UNCHANGED <<connected, progressCallbacks, pendingRequests, aborted,
                        taskCallbacks>>
  /\ UNCHANGED <<now, cpc, connectError, transportCloses, ptCounter, cmCounter,
                 progCalls, cancOps, notifications>>
  /\ UNCHANGED <<controllers, cmCall, cmRet, ptCall, ptNote, progressLog, hpThrew,
                 cbSets, closures, tsmCall, tsmTask, tsmClosure, delivered, hsThrew>>
  /\ UNCHANGED waitVars
  /\ UNCHANGED <<lifeVars, mgrVars, apiVars>>

\* close(), from the await on: this.client.close() resolved (ok) or threw;
\* the finally block sets connected = false and clears the three managers.
CloseSettle(ok) ==
  /\ closeAwaiting > 0
  /\ closeAwaiting' = closeAwaiting - 1
  /\ closeLog' = Append(closeLog, IF ok THEN "resolved" ELSE "rejected")
  /\ connected' = FALSE
  /\ progressCallbacks' = EmptyMap
  /\ pendingRequests' = cancelAll(pendingRequests, aborted).pending
  /\ aborted' = cancelAll(pendingRequests, aborted).aborted
  /\ taskCallbacks' = EmptyMap
  /\ UNCHANGED <<now, cpc, connectError, transportCloses, ptCounter, cmCounter,
                 progCalls, cancOps, notifications>>
  /\ UNCHANGED <<controllers, cmCall, cmRet, ptCall, ptNote, progressLog, hpThrew,
                 cbSets, closures, tsmCall, tsmTask, tsmClosure, delivered, hsThrew>>
  /\ UNCHANGED waitVars
  /\ UNCHANGED <<lifeVars, mgrVars, apiVars>>

\* The common body of callToolWithProgress and readResourceWithProgress, up
\* to the await: ensureConnected, generateToken, register, then the request
\* is issued with the token as _meta.progressToken.
ProgressCallStart(cb) ==
  /\ cpc = "returned"
  /\ Len(progCalls) < MaxProgressCalls
  /\ opCount' = opCount + 1
  /\ opError' = Thrown(opError, ensureConnected(connected))
  /\ IF ensureConnected(connected) # "none"
       THEN /\ progCalls' = Append(progCalls, [token |-> NoToken, status |-> "rejected"])
            /\ UNCHANGED <<ptCounter, progressCallbacks, sdkCalls>>
       ELSE LET token == generateToken(now, ptCounter)
            IN /\ ptCounter' = ptCounter + 1
               /\ progressCallbacks' = register(progressCallbacks, token, cb)
               /\ progCalls' = Append(progCalls, [token |-> token, status |-> "inflight"])
               /\ sdkCalls' = sdkCalls + 1
  /\ UNCHANGED <<connectionTimeout, handshake, lastOp>>
  /\ UNCHANGED <<mgrVars, apiVars>>
  /\ UNCHANGED <<now, cpc, connectError, connected, transportCloses, closeAwaiting,
                 closeLog, cmCounter, cancOps, notifications>>
  /\ UNCHANGED <<ptCall, ptNote, progressLog, hpThrew>>
  /\ UNCHANGED <<cmVars, tsmVars, waitVars>>

\* callToolWithProgress(name, args, onProgress): the request is this.callTool.
CallToolWithProgress(cb) == ProgressCallStart(cb)

\* readResourceWithProgress(uri, onProgress): the request is
\* this.client.readResource.
ReadResourceWithProgress(cb) == ProgressCallStart(cb)

\* The progress-aware call with the unregister after the await instead of in a
\* finally block: a failing request leaves the token registered.
ProgressCallSettle_NoFinally(i, ok) ==
  /\ i \in DOMAIN progCalls
  /\ progCalls[i].status = "inflight"
  /\ progressCallbacks' = IF ok THEN unregister(progressCallbacks, progCalls[i].token)
                                ELSE progressCallbacks
  /\ progCalls' = [progCalls EXCEPT ![i].status = IF ok THEN "resolved" ELSE "rejected"]
  /\ UNCHANGED <<now, cpc, connectError, connected, transportCloses, closeAwaiting,
                 closeLog, ptCounter, cmCounter, cancOps, notifications>>
  /\ UNCHANGED <<ptCall, ptNote, progressLog, hpThrew>>
  /\ UNCHANGED <<cmVars, tsmVars, waitVars>>
  /\ UNCHANGED <<lifeVars, mgrVars, apiVars>>

\* The progress-aware call, from the await on: the request resolved (ok) or
\* threw; the finally block unregisters the token.
ProgressCallSettle(i, ok) ==
  /\ i \in DOMAIN progCalls
  /\ progCalls[i].status = "inflight"
  /\ progressCallbacks' = unregister(progressCallbacks, progCalls[i].token)
  /\ progCalls' = [progCalls EXCEPT ![i].status = IF ok THEN "resolved" ELSE "rejected"]
  /\ UNCHANGED <<now, cpc, connectError, connected, transportCloses, closeAwaiting,
                 closeLog, ptCounter, cmCounter, cancOps, notifications>>
  /\ UNCHANGED <<ptCall, ptNote, progressLog, hpThrew>>
  /\ UNCHANGED <<cmVars, tsmVars, waitVars>>
  /\ UNCHANGED <<lifeVars, mgrVars, apiVars>>

\* callToolCancellable, up to the first await of its async body:
\* generateRequestId and create run first; then, inside the promise,
\* ensureConnected throws (the promise is rejected, nothing completes the
\* entry) or callTool is issued.
CancellableStart ==
  /\ cpc = "returned"
  /\ Len(cancOps) < MaxOps
  /\ LET requestId == generateRequestId(now, cmCounter)
         r == create(pendingRequests, controllers, requestId)
     IN /\ cmCounter' = cmCounter + 1
        /\ pendingRequests' = r.pending
        /\ controllers' = r.controllers
        /\ cancOps' = Append(cancOps,
             [requestId |-> requestId,
              status |-> IF ensureConnected(connected) = "none" THEN "inflight"
                                                                ELSE "rejected"])
  /\ opCount' = opCount + 1
  /\ opError' = Thrown(opError, ensureConnected(connected))
  /\ sdkCalls' = IF ensureConnected(connected) = "none" THEN sdkCalls + 1 ELSE sdkCalls
  /\ UNCHANGED <<connectionTimeout, handshake, lastOp>>
  /\ UNCHANGED <<mgrVars, apiVars>>
  /\ UNCHANGED <<now, cpc, connectError, connected, transportCloses, closeAwaiting,
                 closeLog, ptCounter, progCalls, notifications>>
  /\ UNCHANGED <<aborted, cmCall, cmRet>>
  /\ UNCHANGED <<ptVars, tsmVars, waitVars>>

\* callToolCancellable, from the await on: callTool resolved (ok) or threw;
\* both branches complete(requestId).
CancellableSettle(i, ok) ==
  /\ i \in DOMAIN cancOps
  /\ cancOps[i].status = "inflight"
  /\ pendingRequests' = complete(pendingRequests, cancOps[i].requestId)
  /\ cancOps' = [cancOps EXCEPT ![i].status = IF ok THEN "resolved" ELSE "rejected"]
  /\ UNCHANGED <<now, cpc, connectError, connected, transportCloses, closeAwaiting,
                 closeLog, ptCounter, cmCounter, progCalls, notifications>>
  /\ UNCHANGED <<controllers, aborted, cmCall, cmRet>>
  /\ UNCHANGED <<ptVars, tsmVars, waitVars>>
  /\ UNCHANGED <<lifeVars, mgrVars, apiVars>>

\* The body shared by cancelRequest and the cancel closure: the notification
\* is handed to the SDK client only when cancel() returned true.
CancelAndNotify(requestId) ==
  /\ LET r == cancel(pendingRequests, aborted, requestId)
     IN /\ pendingRequests' = r.pending
        /\ aborted' = r.aborted
        /\ notifications' = IF r.ret THEN Append(notifications, requestId)
                                     ELSE notifications
  /\ UNCHANGED <<now, cpc, connectError, connected, transportCloses, closeAwaiting,
                 closeLog, ptCounter, cmCounter, progCalls, cancOps>>
  /\ UNCHANGED <<controllers, cmCall, cmRet>>
  /\ UNCHANGED <<ptVars, tsmVars, waitVars>>
  /\ UNCHANGED <<lifeVars, mgrVars, apiVars>>

\* cancelRequest(requestId, reason)
CancelRequest(requestId) ==
  /\ cpc = "returned"
  /\ CancelAndNotify(requestId)

\* The cancel closure returned by the i-th callToolCancellable call.
CancelClosure(i) ==
  /\ i \in DOMAIN cancOps
  /\ CancelAndNotify(cancOps[i].requestId)

\* onTaskStatus(taskId, callback): taskStatusManager.subscribe, whatever the
\* connection state.
OnTaskStatus(taskId, cb) ==
  /\ cpc = "returned"
  /\ Len(closures) < MaxConnSubs
  /\ LET r == subscribe(taskCallbacks, cbSets, closures, taskId, cb)
     IN /\ taskCallbacks' = r.tc
        /\ cbSets' = r.sets
        /\ closures' = r.cls
  /\ UNCHANGED <<tsmCall, tsmTask, tsmClosure, delivered, hsThrew>>
  /\ UNCHANGED <<cmVars, ptVars, connVars, waitVars>>
  /\ UNCHANGED <<lifeVars, mgrVars, apiVars>>

\* The caller invokes an unsubscribe closure returned by onTaskStatus.
OnTaskStatusUnsubscribe(k) ==
  /\ cpc = "returned"
  /\ k \in 1..Len(closures)
  /\ LET r == unsubscribe(taskCallbacks, cbSets, closures[k])
     IN /\ taskCallbacks' = r.tc
        /\ cbSets' = r.sets
  /\ UNCHANGED <<closures, tsmCall, tsmTask, tsmClosure, delivered, hsThrew>>
  /\ UNCHANGED <<cmVars, ptVars, connVars, waitVars>>
  /\ UNCHANGED <<lifeVars, mgrVars, apiVars>>

(***************************************************************************)
(* waitForTask                                                             *)
(***************************************************************************)
NoCallback == "none"
TaskStates == {"pending", "running", "completed", "failed", "canceled"}
StatusCallbacks == {NoCallback, "cbA", "cbThrow"}
TimeoutValues == {Absent, Some(0), Some(DefaultPollInterval)}
ResultPayloads == {"payload-1", "payload-2"}
WaitOptions ==
  [onStatus : StatusCallbacks, timeout : TimeoutValues, signal : BOOLEAN,
   pollInterval : {DefaultPollInterval}]

NoOutcome == [kind |-> "none", taskId |-> NoId, timeoutMs |-> Absent, value |-> Absent]
Resolved(v) == [kind |-> "resolved", taskId |-> NoId, timeoutMs |-> Absent, value |-> Some(v)]
\* A generic error in the place of TaskAbortedError.
TaskAbortedError_Generic(taskId) ==
  [kind |-> "Error", taskId |-> NoId, timeoutMs |-> Absent, value |-> Some("Aborted")]

\* new TaskAbortedError(taskId)
TaskAbortedError(taskId) ==
  [kind |-> "TaskAbortedError", taskId |-> taskId, timeoutMs |-> Absent, value |-> Absent]
\* new TaskTimeoutError(taskId, timeoutMs)
TaskTimeoutError(taskId, timeoutMs) ==
  [kind |-> "TaskTimeoutError", taskId |-> taskId, timeoutMs |-> Some(timeoutMs),
   value |-> Absent]
\* new Error('Aborted'), thrown by sleep()
SleepAbortedError ==
  [kind |-> "Error", taskId |-> NoId, timeoutMs |-> Absent, value |-> Some("Aborted")]
\* an error thrown by getTask, getTaskResult or onStatus, passed on unchanged
ThrownBy(who) ==
  [kind |-> who, taskId |-> NoId, timeoutMs |-> Absent, value |-> Absent]

\* The terminal check with 'canceled' left out.
IsTerminal_NoCanceled(state) == state \in {"completed", "failed"}

\* task.state === 'completed' || task.state === 'failed' || task.state === 'canceled'
IsTerminal(state) == state \in {"completed", "failed", "canceled"}

\* timeout && Date.now() - startTime > timeout: an absent timeout and a
\* timeout of 0 are both falsy.
TimedOut(timeout, t, start) ==
  /\ timeout # Absent
  /\ timeout[1] # 0
  /\ t - start > timeout[1]

\* The finally block with the unsubscribe call left out.
WaitUnsubscribe_Skipped == UNCHANGED <<taskCallbacks, cbSets, unsubCalls>>

\* unsubscribe?.() as waitForTask runs it (before the pre-abort throw, and in
\* the finally block of the loop).
WaitUnsubscribe ==
  IF wUnsub # 0
    THEN LET r == unsubscribe(taskCallbacks, cbSets, closures[wUnsub])
         IN /\ taskCallbacks' = r.tc
            /\ cbSets' = r.sets
            /\ unsubCalls' = unsubCalls + 1
    ELSE UNCHANGED <<taskCallbacks, cbSets, unsubCalls>>

\* The promise of waitForTask rejects from inside the try block.
WaitThrow(error) ==
  /\ WaitUnsubscribe
  /\ wOutcome' = error
  /\ wpc' = "done"

\* waitForTask(client, taskId, options) up to its first await: the options
\* are read, onStatus is subscribed, an already aborted signal throws
\* TaskAbortedError after unsubscribing, otherwise the loop is entered.
WaitStart(taskId, opts) ==
  /\ wpc = "idle"
  /\ wTask' = taskId
  /\ wOpts' = opts
  /\ startTime' = now
  /\ LET r == IF opts.onStatus # NoCallback
                THEN subscribe(taskCallbacks, cbSets, closures, taskId, opts.onStatus)
                ELSE [tc |-> taskCallbacks, sets |-> cbSets, cls |-> closures]
         u == IF opts.onStatus # NoCallback THEN Len(r.cls) ELSE 0
     IN /\ wUnsub' = u
        /\ closures' = r.cls
        /\ IF opts.signal /\ signalAborted
             THEN /\ LET q == IF u # 0 THEN unsubscribe(r.tc, r.sets, r.cls[u])
                                       ELSE [tc |-> r.tc, sets |-> r.sets]
                     IN /\ taskCallbacks' = q.tc
                        /\ cbSets' = q.sets
                  /\ unsubCalls' = IF u # 0 THEN unsubCalls + 1 ELSE unsubCalls
                  /\ wOutcome' = TaskAbortedError(taskId)
                  /\ wpc' = "done"
                  /\ UNCHANGED getTaskCalls
             ELSE /\ taskCallbacks' = r.tc
                  /\ cbSets' = r.sets
                  /\ getTaskCalls' = getTaskCalls + 1
                  /\ wpc' = "polling"
                  /\ UNCHANGED <<unsubCalls, wOutcome>>
  /\ UNCHANGED <<wakeAt, signalAborted, abortPhase, wSnaps, getTaskResultCalls,
                 loopLog, pushDeliveries, resultSent>>
  /\ UNCHANGED <<tsmCall, tsmTask, tsmClosure, delivered, hsThrew>>
  /\ UNCHANGED <<cmVars, ptVars, connVars>>
  /\ UNCHANGED <<lifeVars, mgrVars, apiVars>>

\* getTask resolves with a task in the given state: onStatus is called, then
\* a terminal state returns client.getTaskResult(taskId) (the finally block
\* runs at that return), any other state goes to sleep(pollInterval, signal)
\* and awaits its promise, which sleep() has rejected already when the signal
\* is aborted: the finally block runs in the continuation of that await.
GetTaskReturns(state) ==
  /\ wpc = "polling"
  /\ wSnaps' = Append(wSnaps, state)
  /\ loopLog' = IF wOpts.onStatus # NoCallback
                  THEN Append(loopLog, [id |-> wTask, state |-> state])
                  ELSE loopLog
  /\ IF wOpts.onStatus # NoCallback /\ CallbackThrows(wOpts.onStatus)
       THEN /\ WaitThrow(ThrownBy("onStatus"))
            /\ UNCHANGED <<getTaskResultCalls, wakeAt>>
     ELSE IF IsTerminal(state)
       THEN /\ getTaskResultCalls' = getTaskResultCalls + 1
            /\ WaitUnsubscribe
            /\ wpc' = "result"
            /\ UNCHANGED <<wOutcome, wakeAt>>
     ELSE IF wOpts.signal /\ signalAborted
       THEN /\ wpc' = "sleepRejected"
            /\ UNCHANGED <<getTaskResultCalls, wakeAt, taskCallbacks, cbSets,
                           unsubCalls, wOutcome>>
     ELSE /\ wakeAt' = now + wOpts.pollInterval
          /\ wpc' = "sleeping"
          /\ UNCHANGED <<getTaskResultCalls, taskCallbacks, cbSets, unsubCalls, wOutcome>>
  /\ UNCHANGED <<wTask, wOpts, startTime, signalAborted, abortPhase, getTaskCalls,
                 pushDeliveries, wUnsub, resultSent>>
  /\ UNCHANGED <<closures, tsmCall, tsmTask, tsmClosure, delivered, hsThrew>>
  /\ UNCHANGED <<cmVars, ptVars, connVars>>
  /\ UNCHANGED <<lifeVars, mgrVars, apiVars>>

\* getTask rejects: the error leaves waitForTask through the finally block.
GetTaskThrows ==
  /\ wpc = "polling"
  /\ WaitThrow(ThrownBy("getTask"))
  /\ UNCHANGED <<wTask, wOpts, startTime, wakeAt, signalAborted, abortPhase, wSnaps,
                 getTaskCalls, getTaskResultCalls, loopLog, pushDeliveries, wUnsub,
                 resultSent>>
  /\ UNCHANGED <<closures, tsmCall, tsmTask, tsmClosure, delivered, hsThrew>>
  /\ UNCHANGED <<cmVars, ptVars, connVars>>
  /\ UNCHANGED <<lifeVars, mgrVars, apiVars>>

\* The timer of sleep() fires and the loop starts over.
SleepElapsed ==
  /\ wpc = "sleeping"
  /\ now >= wakeAt
  /\ \/ wOpts.signal /\ signalAborted
     \/ TimedOut(wOpts.timeout, now, startTime)
     \/ getTaskCalls < MaxPolls
  /\ IF wOpts.signal /\ signalAborted
       THEN /\ WaitThrow(TaskAbortedError(wTask))
            /\ UNCHANGED getTaskCalls
     ELSE IF TimedOut(wOpts.timeout, now, startTime)
       THEN /\ WaitThrow(TaskTimeoutError(wTask, wOpts.timeout[1]))
            /\ UNCHANGED getTaskCalls
     ELSE /\ getTaskCalls' = getTaskCalls + 1
          /\ wpc' = "polling"
          /\ UNCHANGED <<taskCallbacks, cbSets, unsubCalls, wOutcome>>
  /\ UNCHANGED <<wTask, wOpts, startTime, wakeAt, signalAborted, abortPhase, wSnaps,
                 getTaskResultCalls, loopLog, pushDeliveries, wUnsub, resultSent>>
  /\ UNCHANGED <<closures, tsmCall, tsmTask, tsmClosure, delivered, hsThrew>>
  /\ UNCHANGED <<cmVars, ptVars, connVars>>
  /\ UNCHANGED <<lifeVars, mgrVars, apiVars>>

\* The caller aborts its AbortController. During sleep() the abort listener
\* clears the timer and rejects the promise of sleep() with Error('Aborted');
\* waitForTask goes on only in the continuation of its await. Anywhere else
\* only signal.aborted changes.
Abort ==
  /\ ~signalAborted
  /\ wpc = "idle" \/ wOpts.signal
  /\ signalAborted' = TRUE
  /\ abortPhase' = wpc
  /\ wpc' = IF wpc = "sleeping" THEN "sleepRejected" ELSE wpc
  /\ UNCHANGED <<taskCallbacks, cbSets, unsubCalls, wOutcome>>
  /\ UNCHANGED <<wTask, wOpts, startTime, wakeAt, wSnaps, getTaskCalls,
                 getTaskResultCalls, loopLog, pushDeliveries, wUnsub, resultSent>>
  /\ UNCHANGED <<closures, tsmCall, tsmTask, tsmClosure, delivered, hsThrew>>
  /\ UNCHANGED <<cmVars, ptVars, connVars>>
  /\ UNCHANGED <<lifeVars, mgrVars, apiVars>>

\* The continuation of `await sleep(...)` on a rejected promise (the signal
\* was aborted when sleep() was entered, or the abort listener rejected it
\* later): Error('Aborted') leaves waitForTask through the finally block.
SleepRejected ==
  /\ wpc = "sleepRejected"
  /\ WaitThrow(SleepAbortedError)
  /\ UNCHANGED <<wTask, wOpts, startTime, wakeAt, signalAborted, abortPhase, wSnaps,
                 getTaskCalls, getTaskResultCalls, loopLog, pushDeliveries, wUnsub,
                 resultSent>>
  /\ UNCHANGED <<closures, tsmCall, tsmTask, tsmClosure, delivered, hsThrew>>
  /\ UNCHANGED <<cmVars, ptVars, connVars>>
  /\ UNCHANGED <<lifeVars, mgrVars, apiVars>>

\* The promise returned by getTaskResult settles, and with it waitForTask.
GetTaskResultSettles(ok, payload) ==
  /\ wpc = "result"
  /\ wpc' = "done"
  /\ resultSent' = IF ok THEN Some(payload) ELSE Absent
  /\ wOutcome' = IF ok THEN Resolved(payload) ELSE ThrownBy("getTaskResult")
  /\ UNCHANGED <<wTask, wOpts, startTime, wakeAt, signalAborted, abortPhase, wSnaps,
                 getTaskCalls, getTaskResultCalls, loopLog, pushDeliveries, wUnsub,
                 unsubCalls>>
  /\ UNCHANGED <<cmVars, ptVars, tsmVars, connVars>>
  /\ UNCHANGED <<lifeVars, mgrVars, apiVars>>

\* The server pushes a status notification for the task while waitForTask
\* runs: the TaskStatusManager calls the subscribed onStatus.
WaitStatusPush(state) ==
  /\ wpc \in {"polling", "sleeping", "sleepRejected", "result"}
  /\ pushDeliveries < MaxPush
  /\ LET r == handleStatus(taskCallbacks, cbSets, [id |-> wTask, state |-> state])
     IN pushDeliveries' = pushDeliveries + Len(r.log)
  /\ pushDeliveries' # pushDeliveries
  /\ UNCHANGED <<wpc, wTask, wOpts, startTime, wakeAt, signalAborted, abortPhase,
                 wSnaps, getTaskCalls, getTaskResultCalls, loopLog, wUnsub, unsubCalls,
                 resultSent, wOutcome>>
  /\ UNCHANGED <<cmVars, ptVars, tsmVars, connVars>>
  /\ UNCHANGED <<lifeVars, mgrVars, apiVars>>

(***************************************************************************)
(* MCPClientManager                                                        *)
(***************************************************************************)
\* maxConcurrent: options.maxConcurrent ?? 10
DefaultMaxConcurrent == 10

\* Constructor options: parallelConnect and maxConcurrent, each optional.
ManagerOptions ==
  [parallelConnect : {Absent}, maxConcurrent : {Absent, Some(1), Some(2)}]
    \cup [parallelConnect : {Some(FALSE)}, maxConcurrent : {Absent}]

\* Server configurations: a stdio one, an HTTP one, one with neither field.
ServerConfigs ==
  {[command |-> TRUE, url |-> FALSE], [command |-> FALSE, url |-> TRUE],
   [command |-> FALSE, url |-> FALSE]}

\* The key of the i-th entry of a configuration object.
ServerName(i) == "server-" \o ToString(i)

\* Object.entries(config.mcpServers) for configurations of up to MaxServers
\* entries: the keys of an object are distinct.
ConfigInputs ==
  UNION {[1..n -> ServerConfigs] : n \in 0..MaxServers}
\* The same for the parallel mode, of up to MaxEntries entries, each a stdio
\* one or one with neither field.
ParallelServerConfigs ==
  {[command |-> TRUE, url |-> FALSE], [command |-> FALSE, url |-> FALSE]}
ParallelConfigInputs ==
  UNION {[1..n -> ParallelServerConfigs] : n \in 0..MaxEntries}
\* Constructor options that leave parallelConnect at its default, true.
ParallelOptions ==
  [parallelConnect : {Absent}, maxConcurrent : {Absent, Some(1), Some(2)}]
Entries(cfgs) == [i \in DOMAIN cfgs |-> [name |-> ServerName(i), config |-> cfgs[i]]]

\* this.clients.has(name)
MgrHas(cl, name) == \E i \in DOMAIN cl : cl[i].name = name

\* this.clients.set(name, client): a present key keeps its place in the Map
\* and gets the new value.
MgrSet(cl, name, client) ==
  IF MgrHas(cl, name)
    THEN [i \in DOMAIN cl |-> IF cl[i].name = name
                                THEN [name |-> name, client |-> client]
                                ELSE cl[i]]
    ELSE Append(cl, [name |-> name, client |-> client])

\* createClient(config): url goes to fromHTTP, else command to fromStdio,
\* else it throws.
createClient(config) ==
  IF config.url THEN "fromHTTP" ELSE IF config.command THEN "fromStdio" ELSE "none"

\* addServer(name, config) up to its await, recorded as the next attempt:
\* status is the state of the promise addServer returns, error what it
\* rejects with. With the name registered addServer throws, its promise is
\* rejected at once. Otherwise the promise of createClient is awaited and
\* addServer is pending: createClient, an async function, has called a
\* factory or has thrown the configuration error, and its promise is then
\* rejected with that error already.
addServerBegin(cl, atts, name, config, origin, entry) ==
  LET factory == createClient(config)
      exists == MgrHas(cl, name)
  IN Append(atts, [name |-> name, origin |-> origin, entry |-> entry,
                   factory |-> IF exists THEN "none" ELSE factory,
                   status |-> IF exists THEN "failed" ELSE "connecting",
                   error |-> IF exists THEN "exists"
                             ELSE IF factory = "none" THEN "config" ELSE "none"])

\* A negative slice index counts from the end; both are clamped to 0..n.
SliceIndex(n, k) ==
  IF k < 0 THEN (IF n + k < 0 THEN 0 ELSE n + k) ELSE (IF k > n THEN n ELSE k)

\* entries.slice(start, end) on an array of n entries: the positions
\* (counted from 1) of the entries it returns.
slice(n, start, end) ==
  LET from == SliceIndex(n, start)
      to == SliceIndex(n, end)
  IN [p \in 1..(IF to > from THEN to - from ELSE 0) |-> from + p]

\* The loop test `i < entries.length` before the k-th chunk is pushed
\* (i = (k - 1) * maxConcurrent).
HasChunk(n, maxConcurrent, k) == (k - 1) * maxConcurrent < n

\* entries.slice(i, i + maxConcurrent) for the k-th chunk (i = (k - 1) *
\* maxConcurrent): the positions lo..hi of the entries it holds (none when
\* hi < lo).
ChunkBounds(n, maxConcurrent, k) ==
  LET i == (k - 1) * maxConcurrent
      from == SliceIndex(n, i)
      to == SliceIndex(n, i + maxConcurrent)
  IN [lo |-> from + 1, hi |-> IF to > from THEN to ELSE from]

\* chunk.map(async ([name, config]) => ... this.addServer(name, config)):
\* addServer is entered for the entries lo..hi in order.
RECURSIVE StartRange(_, _, _, _, _)
StartRange(cl, atts, entries, lo, hi) ==
  IF lo > hi
    THEN atts
    ELSE StartRange(cl,
                    addServerBegin(cl, atts, entries[lo].name, entries[lo].config,
                                   "loadConfig", lo),
                    entries, lo + 1, hi)

\* A wait that ends with the first promise of the chunk, like Promise.race
\* on its first element, instead of Promise.all.
Awaited_FirstOnly(atts, lo, hi) ==
  {i \in DOMAIN atts : /\ atts[i].origin = "loadConfig"
                       /\ atts[i].entry = lo
                       /\ atts[i].status = "connecting"}

\* Attempts of the entries lo..hi that are still awaited: Promise.all of the
\* chunk resolves when none is left.
Awaited(atts, lo, hi) ==
  {i \in DOMAIN atts : /\ atts[i].origin = "loadConfig"
                       /\ atts[i].entry \in lo..hi
                       /\ atts[i].status = "connecting"}

\* The chunk-building loop of connectParallel never ends: with an entry to
\* connect and maxConcurrent not above zero, i never reaches entries.length.
ChunkLoopDiverges(n, maxConcurrent) == n > 0 /\ maxConcurrent <= 0

\* connectParallel without the try/catch around addServer: a failed attempt
\* of the chunk awaited before rejects Promise.all and with it loadConfig.
connectParallel_NoCatch(cl, atts, entries, maxConcurrent, k) ==
  LET n == Len(entries)
      c == ChunkBounds(n, maxConcurrent, k)
      before == ChunkBounds(n, maxConcurrent, k - 1)
      started == StartRange(cl, atts, entries, c.lo, c.hi)
  IN IF ChunkLoopDiverges(n, maxConcurrent)
       THEN [attempts |-> atts, chunk |-> k, pc |-> "chunking"]
     ELSE IF k > 1 /\ \E i \in DOMAIN atts : /\ atts[i].origin = "loadConfig"
                                             /\ atts[i].entry \in before.lo..before.hi
                                             /\ atts[i].status = "failed"
       THEN [attempts |-> atts, chunk |-> k, pc |-> "rejected"]
     ELSE IF ~HasChunk(n, maxConcurrent, k)
       THEN [attempts |-> atts, chunk |-> k, pc |-> "returning"]
     ELSE [attempts |-> started, chunk |-> k, pc |-> "running"]

\* connectParallel from the k-th iteration of `for (const chunk of chunks)`
\* up to its await (for k = 1, from its call): the chunk-building loop does
\* not end when maxConcurrent is zero or negative and there is an entry;
\* when there is no k-th chunk connectParallel returns; otherwise addServer
\* is entered for every entry of the chunk (a failure is caught and logged)
\* and Promise.all of the chunk is awaited.
connectParallel(cl, atts, entries, maxConcurrent, k) ==
  LET n == Len(entries)
      c == ChunkBounds(n, maxConcurrent, k)
      started == StartRange(cl, atts, entries, c.lo, c.hi)
  IN IF ChunkLoopDiverges(n, maxConcurrent)
       THEN [attempts |-> atts, chunk |-> k, pc |-> "chunking"]
     ELSE IF ~HasChunk(n, maxConcurrent, k)
       THEN [attempts |-> atts, chunk |-> k, pc |-> "returning"]
       ELSE [attempts |-> started, chunk |-> k, pc |-> "running"]

RECURSIVE connectSequential_SkipsFailure(_, _, _, _)

\* A sequential loop that goes on to the next entry when addServer fails.
connectSequential_SkipsFailure(cl, atts, entries, e) ==
  IF e > Len(entries)
    THEN [attempts |-> atts, chunk |-> e, pc |-> "resolved"]
    ELSE LET started == addServerBegin(cl, atts, entries[e].name, entries[e].config,
                                       "loadConfig", e)
         IN IF started[Len(started)].status = "failed"
              THEN connectSequential_SkipsFailure(cl, started, entries, e + 1)
              ELSE [attempts |-> started, chunk |-> e, pc |-> "running"]

\* The sequential loop of loadConfig from its e-th iteration up to its await:
\* after the last entry loadConfig returns, which resolves it; otherwise
\* addServer is entered and its promise, rejected already or not, awaited.
connectSequential(cl, atts, entries, e) ==
  IF e > Len(entries)
    THEN [attempts |-> atts, chunk |-> e, pc |-> "resolved"]
    ELSE [attempts |-> addServerBegin(cl, atts, entries[e].name, entries[e].config,
                                      "loadConfig", e),
          chunk |-> e, pc |-> "running"]

\* The continuation of `await this.addServer(name, serverConfig)` for the
\* e-th entry: the rejection of addServer is thrown and rejects loadConfig,
\* otherwise the loop goes to the next entry.
resumeSequential(cl, atts, entries, e) ==
  IF \E i \in DOMAIN atts : /\ atts[i].origin = "loadConfig"
                            /\ atts[i].entry = e
                            /\ atts[i].status = "failed"
    THEN [attempts |-> atts, chunk |-> e, pc |-> "rejected"]
    ELSE connectSequential(cl, atts, entries, e + 1)

\* The continuation of `await this.connectParallel(entries)` in loadConfig:
\* loadConfig returns.
resumeLoadConfig(r) == [r EXCEPT !.pc = "resolved"]

\* new MCPClientManager(options)
NewManager(options) ==
  /\ ~mgrOptions.made
  /\ mgrOptions' =
       [made |-> TRUE,
        parallelConnect |-> IF options.parallelConnect = Absent
                              THEN TRUE ELSE options.parallelConnect[1],
        maxConcurrent |-> IF options.maxConcurrent = Absent
                            THEN DefaultMaxConcurrent ELSE options.maxConcurrent[1]]
  /\ UNCHANGED <<clients, attempts, lcPc, lcEntries, lcChunk>>
  /\ UNCHANGED <<cmVars, ptVars, tsmVars, connVars, waitVars, lifeVars, apiVars>>

\* addServer(name, config) called by the user of the manager.
AddServer(name, config) ==
  /\ mgrOptions.made
  /\ Cardinality({i \in DOMAIN attempts : attempts[i].origin = "addServer"}) < MaxAdds
  /\ attempts' = addServerBegin(clients, attempts, name, config, "addServer", 0)
  /\ UNCHANGED <<mgrOptions, clients, lcPc, lcEntries, lcChunk>>
  /\ UNCHANGED <<cmVars, ptVars, tsmVars, connVars, waitVars, lifeVars, apiVars>>

\* loadConfig(config) up to its first await; entries is
\* Object.entries(config.mcpServers).
loadConfig(entries) ==
  /\ mgrOptions.made
  /\ lcPc = "idle"
  /\ lcEntries' = entries
  /\ LET r == IF mgrOptions.parallelConnect
                THEN connectParallel(clients, attempts, entries,
                                     mgrOptions.maxConcurrent, 1)
                ELSE connectSequential(clients, attempts, entries, 1)
     IN /\ attempts' = r.attempts
        /\ lcChunk' = r.chunk
        /\ lcPc' = r.pc
  /\ UNCHANGED <<mgrOptions, clients>>
  /\ UNCHANGED <<cmVars, ptVars, tsmVars, connVars, waitVars, lifeVars, apiVars>>

\* loadConfig of a configuration whose keys are server-1, server-2, ...
LoadConfig(cfgs) == loadConfig(Entries(cfgs))

\* A continuation of loadConfig runs, in a job of its own. With
\* connectParallel returned, loadConfig resolves. With every promise of the
\* awaited chunk settled, connectParallel goes to the next chunk or returns.
\* With the awaited addServer settled, the sequential loop throws or goes to
\* the next entry.
LoadConfigResumes ==
  /\ lcPc \in {"returning", "running"}
  /\ chunking.pc \in {"none", "built"}
  /\ LET c == IF mgrOptions.parallelConnect
                THEN ChunkBounds(Len(lcEntries), mgrOptions.maxConcurrent, lcChunk)
                ELSE [lo |-> lcChunk, hi |-> lcChunk]
         here == [attempts |-> attempts, chunk |-> lcChunk, pc |-> lcPc]
         r == IF lcPc = "returning" THEN resumeLoadConfig(here)
              ELSE IF mgrOptions.parallelConnect
                THEN connectParallel(clients, attempts, lcEntries,
                                     mgrOptions.maxConcurrent, lcChunk + 1)
              ELSE resumeSequential(clients, attempts, lcEntries, lcChunk)
     IN /\ lcPc = "running" => Awaited(attempts, c.lo, c.hi) = {}
        /\ attempts' = r.attempts
        /\ lcChunk' = r.chunk
        /\ lcPc' = r.pc
  /\ UNCHANGED <<mgrOptions, clients, lcEntries>>
  /\ UNCHANGED <<cmVars, ptVars, tsmVars, connVars, waitVars, lifeVars, apiVars>>

\* The continuation of addServer's `await this.createClient(config)` for
\* the i-th addServer call: with a client, it is stored under the name and
\* addServer resolves; with a rejection (of the factory, or the
\* configuration error createClient threw), addServer rejects. A loadConfig
\* awaiting the call goes on in a later job.
CreateClientSettles(i, ok) ==
  /\ i \in DOMAIN attempts
  /\ attempts[i].status = "connecting"
  /\ attempts[i].factory = "none" => ~ok
  /\ attempts' = [attempts EXCEPT ![i].status = IF ok THEN "connected" ELSE "failed",
                                  ![i].error = IF ok THEN "none"
                                               ELSE IF attempts[i].factory = "none"
                                                 THEN "config" ELSE "connect"]
  /\ clients' = IF ok THEN MgrSet(clients, attempts[i].name, i) ELSE clients
  /\ UNCHANGED <<mgrOptions, lcPc, lcEntries, lcChunk>>
  /\ UNCHANGED <<cmVars, ptVars, tsmVars, connVars, waitVars, lifeVars, apiVars>>

(***************************************************************************)
(* MCPClientManager: the aggregated API                                    *)
(***************************************************************************)
\* Server, tool, resource and prompt names are strings; where the code takes
\* them apart they are sequences of characters.
RouteServerNames == {<<"a">>, <<"a", ".", "b">>}
ItemNames == {<<"c">>, <<"b", ".", "c">>}
ItemLists == {<<>>, <<<<"c">>>>, <<<<"c">>, <<"b", ".", "c">>>>}
Uris == {"uri-1"}
ListKinds == {"tools", "resources", "prompts"}

\* A stdio configuration for each of up to MaxServers distinct keys.
RouteConfigs ==
  {[i \in DOMAIN names |-> [name |-> names[i],
                            config |-> [command |-> TRUE, url |-> FALSE]]] :
     names \in {ns \in UNION {[1..n -> RouteServerNames] : n \in 1..MaxServers} :
                  \A i, j \in DOMAIN ns : i # j => ns[i] # ns[j]}}

\* `${name}.${tool.name}`
Namespaced(serverName, itemName) == serverName \o <<".">> \o itemName

\* Names handed to the manager's callTool: every name a listing can contain,
\* and names without server segment, without dot, of an unregistered server.
CallNames ==
  {Namespaced(sv, it) : sv \in RouteServerNames, it \in ItemNames}
    \cup {<<>>, <<"a">>, <<".", "c">>, <<"a", ".">>, <<"b", ".", "c">>}

\* name.split('.')
RECURSIVE split(_)
split(name) ==
  IF \A i \in DOMAIN name : name[i] # "."
    THEN <<name>>
    ELSE LET d == CHOOSE i \in DOMAIN name :
                    name[i] = "." /\ \A j \in 1..(i - 1) : name[j] # "."
         IN <<SubSeq(name, 1, d - 1)>> \o split(SubSeq(name, d + 1, Len(name)))

\* A join that keeps only the first of the parts.
join_FirstPartOnly(parts) ==
  IF Len(parts) = 0 THEN <<>> ELSE parts[1]

\* parts.join('.')
RECURSIVE join(_)
join(parts) ==
  IF Len(parts) = 0 THEN <<>>
  ELSE IF Len(parts) = 1 THEN parts[1]
  ELSE parts[1] \o <<".">> \o join(Tail(parts))

\* this.clients.get(name); 0 stands for undefined.
MgrGet(cl, name) ==
  IF MgrHas(cl, name)
    THEN cl[CHOOSE i \in DOMAIN cl : cl[i].name = name].client
    ELSE 0

\* The manager's callTool(name, args) up to the call it forwards: the server
\* name, the tool name, the client looked up and the error thrown, if any.
mgrCallTool(cl, name) ==
  LET parts == split(name)
      serverName == parts[1]
      toolNameParts == Tail(parts)
      toolName == join(toolNameParts)
      client == MgrGet(cl, serverName)
  IN [serverName |-> serverName, toolName |-> toolName, client |-> client,
      error |-> IF serverName = <<>> \/ Len(toolNameParts) = 0 THEN "invalid"
                ELSE IF client = 0 THEN "unknown-server"
                ELSE "none"]

\* The entry pushed for one item of a server's list. original and client are
\* bookkeeping: the item's name as the server gave it and the connection it
\* came from.
listEntry(kind, name, client, item) ==
  [name |-> IF kind = "resources" THEN item ELSE Namespaced(name, item),
   server |-> name, original |-> item, client |-> client]

\* pos is the place of the Map iterator of the for...of loop: the number of
\* entries of the registry it has passed; name and client are the loop's
\* `const [name, client]`.
NoMgrOp ==
  [n |-> 0, op |-> "none", arg |-> <<>>, pos |-> 0, name |-> <<>>, client |-> 0,
   acc |-> <<>>, status |-> "idle", error |-> "none", server |-> <<>>,
   callsBefore |-> 0]

\* The for...of loop of a listAll* method or of readResource when its
\* iterator moves to position pos of the Map: past the last entry the loop
\* is left, otherwise name and client are bound to the entry and the method
\* of the client is called and awaited.
mgrLoop(cl, calls, op, arg, pos) ==
  IF pos > Len(cl)
    THEN [left |-> TRUE, name |-> <<>>, client |-> 0, calls |-> calls]
    ELSE [left |-> FALSE, name |-> cl[pos].name, client |-> cl[pos].client,
          calls |-> Append(calls, [client |-> cl[pos].client, op |-> op, arg |-> arg])]

\* The Map iterator of a loop that is awaiting, after this.clients.delete(name):
\* an entry it has passed is gone, the entries after it move up with it.
iteratorAfterDelete(op, cl, name) ==
  IF op.status = "awaiting"
     /\ \E i \in 1..op.pos : i \in DOMAIN cl /\ cl[i].name = name
    THEN [op EXCEPT !.pos = @ - 1]
    ELSE op

\* The same after this.clients.clear(): what is set afterwards is still to
\* come.
iteratorAfterClear(op) ==
  IF op.status = "awaiting" THEN [op EXCEPT !.pos = 0] ELSE op

\* The connection method a listAll* method of the manager calls.
ClientListOp(kind) ==
  IF kind = "tools" THEN "listAllTools"
  ELSE IF kind = "resources" THEN "listAllResources"
  ELSE "listAllPrompts"

\* callTool(name, args) of the manager: it returns the promise of the
\* connection's callTool, or throws before any connection is called.
MgrCallTool(name) ==
  /\ mgrOptions.made
  /\ mgrOp.status # "awaiting"
  /\ mgrOp.n < MaxMgrOps
  /\ LET r == mgrCallTool(clients, name)
     IN /\ mgrOp' = [n |-> mgrOp.n + 1, op |-> "callTool", arg |-> name, pos |-> 0,
                     name |-> <<>>,
                     client |-> IF r.error = "none" THEN r.client ELSE 0,
                     acc |-> <<>>,
                     status |-> IF r.error = "none" THEN "forwarded" ELSE "rejected",
                     error |-> r.error, server |-> <<>>, callsBefore |-> Len(connCalls)]
        /\ connCalls' = IF r.error = "none"
                          THEN Append(connCalls, [client |-> r.client, op |-> "callTool",
                                                  arg |-> r.toolName])
                          ELSE connCalls
  /\ UNCHANGED listed
  /\ UNCHANGED utilVars
  /\ UNCHANGED <<cmVars, ptVars, tsmVars, connVars, waitVars, lifeVars, mgrVars, regVars, aggVars, pageVars>>

\* listAllTools / listAllResources / listAllPrompts of the manager up to the
\* first await.
MgrListAll(kind) ==
  /\ mgrOptions.made
  /\ mgrOp.status # "awaiting"
  /\ mgrOp.n < MaxMgrOps
  /\ LET r == mgrLoop(clients, connCalls, ClientListOp(kind), <<>>, 1)
     IN /\ mgrOp' = [n |-> mgrOp.n + 1, op |-> kind, arg |-> <<>>,
                     pos |-> IF r.left THEN 0 ELSE 1, name |-> r.name,
                     client |-> r.client,
                     acc |-> <<>>,
                     status |-> IF r.left THEN "resolved" ELSE "awaiting",
                     error |-> "none", server |-> <<>>, callsBefore |-> Len(connCalls)]
        /\ connCalls' = r.calls
        /\ listed' = IF r.left THEN <<>> ELSE listed
  /\ UNCHANGED utilVars
  /\ UNCHANGED <<cmVars, ptVars, tsmVars, connVars, waitVars, lifeVars, mgrVars, regVars, aggVars, pageVars>>

\* The connection's listAll* awaited by the manager settles: with its items,
\* which are pushed renamed and tagged, and the loop goes on; or with a
\* rejection, which is the manager's.
MgrListSettles(ok, items) ==
  /\ mgrOp.op \in ListKinds
  /\ mgrOp.status = "awaiting"
  /\ IF ok
       THEN LET acc == mgrOp.acc \o
                         [i \in DOMAIN items |->
                            listEntry(mgrOp.op, mgrOp.name, mgrOp.client, items[i])]
                r == mgrLoop(clients, connCalls, ClientListOp(mgrOp.op), <<>>,
                             mgrOp.pos + 1)
            IN /\ mgrOp' = [mgrOp EXCEPT !.acc = acc,
                                         !.pos = IF r.left THEN 0 ELSE mgrOp.pos + 1,
                                         !.name = r.name,
                                         !.client = r.client,
                                         !.status = IF r.left THEN "resolved"
                                                              ELSE "awaiting"]
               /\ connCalls' = r.calls
               /\ listed' = IF r.left THEN acc ELSE listed
       ELSE /\ mgrOp' = [mgrOp EXCEPT !.status = "rejected", !.error = "connection",
                                      !.pos = 0, !.name = <<>>, !.client = 0]
            /\ UNCHANGED <<connCalls, listed>>
  /\ UNCHANGED utilVars
  /\ UNCHANGED <<cmVars, ptVars, tsmVars, connVars, waitVars, lifeVars, mgrVars, regVars, aggVars, pageVars>>

\* readResource(uri) of the manager up to the first await.
MgrReadResource(uri) ==
  /\ mgrOptions.made
  /\ mgrOp.status # "awaiting"
  /\ mgrOp.n < MaxMgrOps
  /\ LET r == mgrLoop(clients, connCalls, "readResource", uri, 1)
     IN /\ mgrOp' = [n |-> mgrOp.n + 1, op |-> "readResource", arg |-> uri,
                     pos |-> IF r.left THEN 0 ELSE 1, name |-> r.name,
                     client |-> r.client,
                     acc |-> <<>>,
                     status |-> IF r.left THEN "rejected" ELSE "awaiting",
                     error |-> IF r.left THEN "not-found" ELSE "none",
                     server |-> <<>>, callsBefore |-> Len(connCalls)]
        /\ connCalls' = r.calls
  /\ UNCHANGED listed
  /\ UNCHANGED utilVars
  /\ UNCHANGED <<cmVars, ptVars, tsmVars, connVars, waitVars, lifeVars, mgrVars, regVars, aggVars, pageVars>>

\* readResource without the try/catch around the awaited call.
MgrReadSettles_NoCatch(ok) ==
  /\ mgrOp.op = "readResource"
  /\ mgrOp.status = "awaiting"
  /\ mgrOp' = [mgrOp EXCEPT !.acc = Append(mgrOp.acc, [client |-> mgrOp.client, ok |-> ok]),
                            !.status = IF ok THEN "resolved" ELSE "rejected",
                            !.error = IF ok THEN "none" ELSE "connection",
                            !.server = IF ok THEN mgrOp.name ELSE <<>>]
  /\ UNCHANGED <<connCalls, listed>>
  /\ UNCHANGED utilVars
  /\ UNCHANGED <<cmVars, ptVars, tsmVars, connVars, waitVars, lifeVars, mgrVars, regVars, aggVars, pageVars>>

\* The connection's readResource awaited by the manager settles: a result is
\* returned with the server's name; a rejection is caught and the loop goes
\* on, throwing "Resource not found" past the last entry.
MgrReadSettles(ok) ==
  /\ mgrOp.op = "readResource"
  /\ mgrOp.status = "awaiting"
  /\ LET replies == Append(mgrOp.acc, [client |-> mgrOp.client, ok |-> ok])
     IN IF ok
          THEN /\ mgrOp' = [mgrOp EXCEPT !.acc = replies,
                                         !.status = "resolved",
                                         !.server = mgrOp.name]
               /\ UNCHANGED connCalls
          ELSE LET r == mgrLoop(clients, connCalls, "readResource", mgrOp.arg,
                                mgrOp.pos + 1)
               IN /\ mgrOp' = [mgrOp EXCEPT !.acc = replies,
                                            !.pos = IF r.left THEN 0 ELSE mgrOp.pos + 1,
                                            !.name = r.name,
                                            !.client = r.client,
                                            !.status = IF r.left THEN "rejected"
                                                                 ELSE "awaiting",
                                            !.error = IF r.left THEN "not-found"
                                                                ELSE "none"]
                  /\ connCalls' = r.calls
  /\ UNCHANGED listed
  /\ UNCHANGED utilVars
  /\ UNCHANGED <<cmVars, ptVars, tsmVars, connVars, waitVars, lifeVars, mgrVars, regVars, aggVars, pageVars>>

(***************************************************************************)
(* MCPClientManager: removeServer, closeAll; closeAllMCPClients            *)
(***************************************************************************)
\* Names handed to removeServer: the first configuration key and one that
\* is never registered.
RemoveNames == {ServerName(1), "nonexistent"}

\* Valid (stdio) configurations of up to MaxServers entries.
RegConfigInputs ==
  UNION {[1..n -> {[command |-> TRUE, url |-> FALSE]}] : n \in 0..MaxServers}

\* Arrays of clients handed to closeAllMCPClients.
ClientArrays == {<<>>, <<1>>, <<1, 2>>, <<2, 1>>}

\* this.clients.delete(name)
MgrDelete(cl, name) == SelectSeq(cl, LAMBDA e : e.name # name)

\* Array.from(this.clients.values())
MgrValues(cl) == [i \in DOMAIN cl |-> cl[i].client]

\* this.connected of a client the manager created: true from the factory's
\* return until the finally block of a close() has run, which it does when
\* the close of the SDK client has settled.
clientConnected(calls, client) ==
  ~\E i \in DOMAIN calls : /\ calls[i].client = client
                           /\ calls[i].status \in {"closed", "failed"}

\* client.close() up to its await, as the status of the call: on a
\* connected client the close of the SDK client is awaited (pending), on a
\* disconnected one close() returns at once (returned) and closes nothing.
closeBegin(calls, client) ==
  IF clientConnected(calls, client) THEN "pending" ELSE "returned"

\* targets.map((c) => c.close()...): close() is called on each client in
\* order.
closeEach(calls, targets, by, ref) ==
  calls \o [i \in DOMAIN targets |->
              [client |-> targets[i], by |-> by, ref |-> ref,
               status |-> closeBegin(calls, targets[i])]]

\* The close() calls of the ref-th closeAll / closeAllMCPClients call.
CallsOf(calls, ref) ==
  {i \in DOMAIN calls : calls[i].by # "removeServer" /\ calls[i].ref = ref}

\* A Promise.all over close() promises without .catch(() => {}): it rejects
\* as soon as one close has failed.
promiseAllCloses_NoCatch(calls, ref) ==
  IF \E i \in CallsOf(calls, ref) : calls[i].status = "failed" THEN "rejected"
  ELSE IF \E i \in CallsOf(calls, ref) : calls[i].status = "pending" THEN "closing"
  ELSE "resolved"

\* await Promise.all(closePromises), each promise being
\* client.close().catch(() => {}): it resolves when every close has settled,
\* however it settled.
promiseAllCloses(calls, ref) ==
  IF \E i \in CallsOf(calls, ref) : calls[i].status = "pending" THEN "closing"
  ELSE "resolved"

\* removeServer(name) up to its await: false when the name is not
\* registered, otherwise close() is called on its client and awaited.
RemoveServer(name) ==
  /\ mgrOptions.made
  /\ Len(rmOps) < MaxRemoves
  /\ LET client == MgrGet(clients, name)
     IN IF client = 0
          THEN /\ rmOps' = Append(rmOps, [name |-> name, client |-> 0,
                                          status |-> "resolved", ret |-> Some(FALSE)])
               /\ UNCHANGED closeCalls
          ELSE /\ rmOps' = Append(rmOps, [name |-> name, client |-> client,
                                          status |-> "closing", ret |-> Absent])
               /\ closeCalls' = Append(closeCalls,
                                       [client |-> client, by |-> "removeServer",
                                        ref |-> Len(rmOps) + 1,
                                        status |-> closeBegin(closeCalls, client)])
  /\ UNCHANGED closeOps
  /\ UNCHANGED utilVars
  /\ UNCHANGED <<cmVars, ptVars, tsmVars, connVars, waitVars, lifeVars, mgrVars,
                 routeVars, aggVars, pageVars>>

\* closeAll() up to its await: close() is called on every registered client
\* and Promise.all of the closes is awaited, also when there is none.
CloseAll ==
  /\ mgrOptions.made
  /\ closeOps = <<>>
  /\ closeCalls' = closeEach(closeCalls, MgrValues(clients), "closeAll",
                             Len(closeOps) + 1)
  /\ closeOps' = Append(closeOps, [by |-> "closeAll", status |-> "closing",
                                   targets |-> MgrValues(clients)])
  /\ UNCHANGED rmOps
  /\ UNCHANGED mgrVars
  /\ UNCHANGED routeVars
  /\ UNCHANGED utilVars
  /\ UNCHANGED <<cmVars, ptVars, tsmVars, connVars, waitVars, lifeVars, aggVars,
                 pageVars>>

\* closeAllMCPClients(clients) up to its await.
CloseAllMCPClients(arr) ==
  /\ closeOps = <<>>
  /\ \A i \in DOMAIN arr : /\ arr[i] \in DOMAIN attempts
                           /\ attempts[arr[i]].status = "connected"
  /\ closeCalls' = closeEach(closeCalls, arr, "closeAllMCPClients",
                             Len(closeOps) + 1)
  /\ closeOps' = Append(closeOps, [by |-> "closeAllMCPClients",
                                   status |-> "closing", targets |-> arr])
  /\ UNCHANGED rmOps
  /\ UNCHANGED utilVars
  /\ UNCHANGED <<cmVars, ptVars, tsmVars, connVars, waitVars, lifeVars, mgrVars,
                 routeVars, aggVars, pageVars>>

\* The close of the SDK client awaited by the i-th close() call settles:
\* the finally block of close() runs, the client is disconnected, and the
\* promise of close() resolves or rejects with it. What awaits that promise
\* (removeServer, or the Promise.all of closeAll and closeAllMCPClients)
\* goes on in a later job.
ClientCloseSettles(i, ok) ==
  /\ i \in DOMAIN closeCalls
  /\ closeCalls[i].status = "pending"
  /\ closeCalls' = [closeCalls EXCEPT ![i].status = IF ok THEN "closed" ELSE "failed"]
  /\ UNCHANGED <<rmOps, closeOps>>
  /\ UNCHANGED mgrVars
  /\ UNCHANGED routeVars
  /\ UNCHANGED utilVars
  /\ UNCHANGED <<cmVars, ptVars, tsmVars, connVars, waitVars, lifeVars, aggVars,
                 pageVars>>

\* The continuation of `await client.close()` of the r-th removeServer
\* call, once close() has settled: after a rejection removeServer rejects
\* with it; otherwise the name is deleted from the registry, whatever it
\* holds by then, and true returned.
RemoveServerResumes(r) ==
  /\ r \in DOMAIN rmOps
  /\ rmOps[r].status = "closing"
  /\ \E i \in DOMAIN closeCalls :
       /\ closeCalls[i].by = "removeServer"
       /\ closeCalls[i].ref = r
       /\ closeCalls[i].status # "pending"
       /\ LET ok == closeCalls[i].status # "failed"
          IN /\ rmOps' = [rmOps EXCEPT ![r].status = IF ok THEN "resolved"
                                                          ELSE "rejected",
                                       ![r].ret = IF ok THEN Some(TRUE) ELSE Absent]
             /\ clients' = IF ok THEN MgrDelete(clients, rmOps[r].name) ELSE clients
             /\ mgrOp' = IF ok THEN iteratorAfterDelete(mgrOp, clients, rmOps[r].name)
                               ELSE mgrOp
  /\ UNCHANGED <<closeOps, closeCalls>>
  /\ UNCHANGED <<mgrOptions, attempts, lcPc, lcEntries, lcChunk>>
  /\ UNCHANGED <<listed, connCalls>>
  /\ UNCHANGED utilVars
  /\ UNCHANGED <<cmVars, ptVars, tsmVars, connVars, waitVars, lifeVars, aggVars,
                 pageVars>>

\* The continuation of `await Promise.all(closePromises)` of the ref-th
\* closeAll / closeAllMCPClients call, once Promise.all has settled: closeAll
\* clears the registry, whatever it holds by then, and the call resolves.
CloseAllResumes(ref) ==
  /\ ref \in DOMAIN closeOps
  /\ closeOps[ref].status = "closing"
  /\ LET status == promiseAllCloses(closeCalls, ref)
         clearing == closeOps[ref].by = "closeAll" /\ status = "resolved"
     IN /\ status # "closing"
        /\ closeOps' = [closeOps EXCEPT ![ref].status = status]
        /\ clients' = IF clearing THEN <<>> ELSE clients
        /\ mgrOp' = IF clearing THEN iteratorAfterClear(mgrOp) ELSE mgrOp
  /\ UNCHANGED <<rmOps, closeCalls>>
  /\ UNCHANGED <<mgrOptions, attempts, lcPc, lcEntries, lcChunk>>
  /\ UNCHANGED <<listed, connCalls>>
  /\ UNCHANGED utilVars
  /\ UNCHANGED <<cmVars, ptVars, tsmVars, connVars, waitVars, lifeVars, aggVars,
                 pageVars>>

(***************************************************************************)
(* aggregateMCPTools and routeMCPToolCall                                  *)
(***************************************************************************)
\* What getServerInfo() gives: nothing, or a record with a name.
Identities == {Absent, Some(<<"a">>), Some(<<"a", ".", "b">>)}

\* The name used when the server declares none.
UnknownServer == <<"unknown">>

\* Arrays of up to MaxServers clients, each with its identity and the tool
\* names its listAllTools() returns.
AggInputs ==
  UNION {[1..n -> [identity : Identities, tools : ItemLists]] : n \in 0..MaxServers}

\* Keys handed to routeMCPToolCall.
RouteKeys ==
  {Namespaced(sv, it) : sv \in {<<"a">>, <<"a", ".", "b">>, UnknownServer},
                        it \in ItemNames}
    \cup {<<>>, <<"c">>}

\* A set that keeps the entry already stored under the key.
ToolMapSet_KeepsFirst(m, info) ==
  IF \E i \in DOMAIN m : m[i].key = info.key
    THEN m
    ELSE Append(m, info)

\* toolMap.set(key, info) on a Map kept in insertion order.
ToolMapSet(m, info) ==
  IF \E i \in DOMAIN m : m[i].key = info.key
    THEN [i \in DOMAIN m |-> IF m[i].key = info.key THEN info ELSE m[i]]
    ELSE Append(m, info)

\* toolMap.get(key); the empty sequence stands for undefined.
ToolMapGet(m, key) ==
  IF \E i \in DOMAIN m : m[i].key = key
    THEN <<m[CHOOSE i \in DOMAIN m : m[i].key = key]>>
    ELSE <<>>

\* serverInfo?.name ?? 'unknown'
serverNameOf(identity) ==
  IF identity = Absent THEN UnknownServer ELSE identity[1]

\* The inner loop of aggregateMCPTools: the tools of one client, from the
\* t-th on, are set under their namespaced names.
RECURSIVE aggregateTools(_, _, _, _, _)
aggregateTools(m, client, serverName, tools, t) ==
  IF t > Len(tools)
    THEN m
    ELSE aggregateTools(ToolMapSet(m, [key |-> Namespaced(serverName, tools[t]),
                                       client |-> client,
                                       serverName |-> serverName,
                                       originalName |-> tools[t]]),
                        client, serverName, tools, t + 1)

\* The loop of aggregateMCPTools(clients) arriving at its c-th client: past
\* the last client the Map is returned, otherwise the client's
\* listAllTools() is called and awaited.
aggregateMCPTools(m, cls, c) ==
  IF c > Len(cls)
    THEN [pc |-> "returning", pos |-> 0, map |-> m, reply |-> "none"]
    ELSE [pc |-> "awaiting", pos |-> c, map |-> m, reply |-> "none"]

\* routeMCPToolCall(toolName, args, toolMap) up to the call it makes.
routeMCPToolCall(toolName, m) ==
  LET toolInfo == ToolMapGet(m, toolName)
  IN IF toolInfo = <<>>
       THEN [key |-> toolName, error |-> "unknown-tool", client |-> 0, arg |-> <<>>]
       ELSE [key |-> toolName, error |-> "none", client |-> toolInfo[1].client,
             arg |-> toolInfo[1].originalName]

NoRoute == [key |-> <<>>, error |-> "none", client |-> 0, arg |-> <<>>]

NoAggOp == [pc |-> "idle", pos |-> 0, map |-> <<>>, reply |-> "none"]

\* aggregateMCPTools(clients) is called: it runs up to its first await, or,
\* with no client, to its return.
Aggregate(cls) ==
  /\ aggOp.pc = "idle"
  /\ aggClients' = cls
  /\ aggOp' = aggregateMCPTools(<<>>, cls, 1)
  /\ UNCHANGED <<toolMap, routed>>
  /\ UNCHANGED utilVars
  /\ UNCHANGED <<cmVars, ptVars, tsmVars, connVars, waitVars, lifeVars, mgrVars,
                 routeVars, regVars, pageVars>>

\* The awaited listAllTools() settles. A rejection leaves the loop and
\* rejects aggregateMCPTools: no Map, and no later client is asked. A reply
\* has its tools set into the Map, and the loop goes to the next client or,
\* past the last one, aggregateMCPTools returns.
AggregateListSettles(ok) ==
  /\ aggOp.pc = "awaiting"
  /\ IF ok
       THEN LET c == aggOp.pos
                m == aggregateTools(aggOp.map, c,
                                    serverNameOf(aggClients[c].identity),
                                    aggClients[c].tools, 1)
                r == aggregateMCPTools(m, aggClients, c + 1)
            IN aggOp' = [r EXCEPT !.reply = "ok"]
       ELSE aggOp' = [aggOp EXCEPT !.pc = "rejected", !.reply = "rejected"]
  /\ UNCHANGED <<aggClients, toolMap, routed>>
  /\ UNCHANGED utilVars
  /\ UNCHANGED <<cmVars, ptVars, tsmVars, connVars, waitVars, lifeVars, mgrVars,
                 routeVars, regVars, pageVars>>

\* const toolMap = await aggregateMCPTools(clients): aggregateMCPTools has
\* returned its Map, which reaches the caller in the continuation of the
\* caller's await.
AggregateReturns ==
  /\ aggOp.pc = "returning"
  /\ aggOp' = [aggOp EXCEPT !.pc = "resolved"]
  /\ toolMap' = Some(aggOp.map)
  /\ UNCHANGED <<aggClients, routed>>
  /\ UNCHANGED utilVars
  /\ UNCHANGED <<cmVars, ptVars, tsmVars, connVars, waitVars, lifeVars, mgrVars,
                 routeVars, regVars, pageVars>>

\* routeMCPToolCall(key, args, toolMap)
Route(key) ==
  /\ toolMap # Absent
  /\ routed' = routeMCPToolCall(key, toolMap[1])
  /\ UNCHANGED <<aggClients, toolMap, aggOp>>
  /\ UNCHANGED utilVars
  /\ UNCHANGED <<cmVars, ptVars, tsmVars, connVars, waitVars, lifeVars, mgrVars,
                 routeVars, regVars, pageVars>>

(***************************************************************************)
(* DedalusMCPClient: listAllTools, listAllResources, listAllPrompts        *)
(***************************************************************************)
\* nextCursor of a page: undefined, the empty string, or a cursor.
Cursors == {Absent, Some(""), Some("cur-a"), Some("cur-b")}

\* The tools / resources / prompts of one page.
PageItems == {<<>>, <<"item-1">>, <<"item-2", "item-3">>}

\* Results of listTools / listResources / listPrompts.
Pages == [items : PageItems, nextCursor : Cursors]

\* A JavaScript string | undefined used as a condition.
Truthy(cursor) == cursor # Absent /\ cursor[1] # ""

\* Request parameters that never carry the cursor.
pageParams_NoCursor(cursor) == Absent

\* cursor ? { cursor } : undefined, the parameter of this.client.listTools;
\* Absent stands for undefined, otherwise the cursor sent.
pageParams(cursor) == IF Truthy(cursor) THEN cursor ELSE Absent

NoPageOp ==
  [kind |-> "none", status |-> "idle", requests |-> <<>>, pages |-> <<>>,
   items |-> <<>>]

\* No operation on the roots yet.
NoRootOp ==
  [n |-> 0, op |-> "none", arg |-> <<>>, ret |-> FALSE, error |-> FALSE,
   called |-> <<>>, sent |-> 0]

\* connectParallel has not been entered.
NoChunking == [pc |-> "none", i |-> 0, chunks |-> <<>>]

\* No configuration has been brought up yet.
NoLaunch == [via |-> "none", given |-> Absent, options |-> Absent]

\* One turn of the do...while loop up to its await: listTools(cursor) calls
\* ensureConnected() and hands the request to the SDK client. When
\* ensureConnected() throws, listTools returns a rejected promise and no
\* request is made; the helper awaits that promise like any other, so its
\* own promise is pending until a later job.
pageRequest(op, isConnected, cursor) ==
  IF ensureConnected(isConnected) # "none"
    THEN [op EXCEPT !.status = "awaiting"]
    ELSE [op EXCEPT !.status = "awaiting",
                    !.requests = Append(op.requests, pageParams(cursor))]

\* listAllTools() / listAllResources() / listAllPrompts() up to the first
\* await: cursor is undefined.
ListAll(kind) ==
  /\ cpc = "returned"
  /\ pageOp.kind = "none"
  /\ pageOp' = pageRequest([NoPageOp EXCEPT !.kind = kind], connected, Absent)
  /\ opError' = Thrown(opError, ensureConnected(connected))
  /\ sdkCalls' = IF ensureConnected(connected) = "none" THEN sdkCalls + 1 ELSE sdkCalls
  /\ UNCHANGED <<connectionTimeout, handshake, opCount, lastOp>>
  /\ UNCHANGED utilVars
  /\ UNCHANGED <<cmVars, ptVars, tsmVars, connVars, waitVars, mgrVars, routeVars,
                 regVars, aggVars>>

\* The awaited page request settles. A rejection is the helper's own. A
\* result is pushed to the array; with a cursor the loop asks for the next
\* page, without one the array is returned. The server ends its list within
\* MaxPages pages.
ListPageSettles(ok, page) ==
  /\ pageOp.status = "awaiting"
  /\ Len(pageOp.requests) = Len(pageOp.pages) + 1
  /\ Len(pageOp.requests) < MaxPages \/ ~Truthy(page.nextCursor)
  /\ IF ~ok
       THEN /\ pageOp' = [pageOp EXCEPT !.status = "rejected"]
            /\ UNCHANGED <<opError, sdkCalls>>
       ELSE LET got == [pageOp EXCEPT !.pages = Append(pageOp.pages, page),
                                      !.items = pageOp.items \o page.items]
            IN IF Truthy(page.nextCursor)
                 THEN /\ pageOp' = pageRequest(got, connected, page.nextCursor)
                      /\ opError' = Thrown(opError, ensureConnected(connected))
                      /\ sdkCalls' = IF ensureConnected(connected) = "none"
                                       THEN sdkCalls + 1 ELSE sdkCalls
                 ELSE /\ pageOp' = [got EXCEPT !.status = "resolved"]
                      /\ UNCHANGED <<opError, sdkCalls>>
  /\ UNCHANGED <<connectionTimeout, handshake, opCount, lastOp>>
  /\ UNCHANGED utilVars
  /\ UNCHANGED <<cmVars, ptVars, tsmVars, connVars, waitVars, mgrVars, routeVars,
                 regVars, aggVars>>

\* The continuation of `await this.listTools(cursor)` when listTools threw
\* in ensureConnected(): the helper rejects with that error.
ListPageRefused ==
  /\ pageOp.status = "awaiting"
  /\ Len(pageOp.requests) = Len(pageOp.pages)
  /\ pageOp' = [pageOp EXCEPT !.status = "rejected"]
  /\ UNCHANGED lifeVars
  /\ UNCHANGED utilVars
  /\ UNCHANGED <<cmVars, ptVars, tsmVars, connVars, waitVars, mgrVars, routeVars,
                 regVars, aggVars>>

(***************************************************************************)
(* Initial state: freshly constructed objects.                             *)
(***************************************************************************)
Init ==
  /\ pendingRequests = EmptyMap
  /\ controllers = <<>>
  /\ aborted = {}
  /\ cmCall = <<"new", NoId>>
  /\ cmRet = FALSE
  /\ progressCallbacks = EmptyMap
  /\ ptCall = "new"
  /\ ptNote = [progressToken |-> "tok-1", progress |-> 0,
               total |-> Absent, message |-> Absent]
  /\ progressLog = <<>>
  /\ hpThrew = FALSE
  /\ taskCallbacks = EmptyMap
  /\ cbSets = <<>>
  /\ closures = <<>>
  /\ tsmCall = "new"
  /\ tsmTask = [id |-> "task-1", state |-> "running"]
  /\ tsmClosure = 0
  /\ now = 0
  /\ cpc = "new"
  /\ connectError = NoError
  /\ connectionTimeout = DEFAULT_CONNECTION_TIMEOUT
  /\ handshake = Handshake("none", Absent)
  /\ opCount = 0
  /\ lastOp = "none"
  /\ opError = "none"
  /\ sdkCalls = 0
  /\ mgrOptions = [made |-> FALSE, parallelConnect |-> TRUE,
                   maxConcurrent |-> DefaultMaxConcurrent]
  /\ clients = <<>>
  /\ attempts = <<>>
  /\ lcPc = "idle"
  /\ lcEntries = <<>>
  /\ lcChunk = 0
  /\ mgrOp = NoMgrOp
  /\ listed = <<>>
  /\ connCalls = <<>>
  /\ rmOps = <<>>
  /\ closeOps = <<>>
  /\ closeCalls = <<>>
  /\ aggClients = <<>>
  /\ toolMap = Absent
  /\ routed = NoRoute
  /\ aggOp = NoAggOp
  /\ pageOp = NoPageOp
  /\ tokens = <<>>
  /\ requestIds = <<>>
  /\ cfgCalls = <<>>
  /\ launched = NoLaunch
  /\ released = {}
  /\ chunking = NoChunking
  /\ rootsHandler = "none"
  /\ roots = <<>>
  /\ changeListeners = <<>>
  /\ rootClosures = <<>>
  /\ rootOp = NoRootOp
  /\ connected = FALSE
  /\ transportCloses = 0
  /\ closeAwaiting = 0
  /\ closeLog = <<>>
  /\ ptCounter = 0
  /\ cmCounter = 0
  /\ progCalls = <<>>
  /\ cancOps = <<>>
  /\ notifications = <<>>
  /\ wpc = "idle"
  /\ wTask = "task-1"
  /\ wOpts = [onStatus |-> NoCallback, timeout |-> Absent, signal |-> FALSE,
              pollInterval |-> DefaultPollInterval]
  /\ startTime = 0
  /\ wakeAt = 0
  /\ signalAborted = FALSE
  /\ abortPhase = "none"
  /\ wSnaps = <<>>
  /\ getTaskCalls = 0
  /\ getTaskResultCalls = 0
  /\ loopLog = <<>>
  /\ pushDeliveries = 0
  /\ wUnsub = 0
  /\ unsubCalls = 0
  /\ resultSent = Absent
  /\ wOutcome = NoOutcome
  /\ delivered = <<>>
  /\ hsThrew = FALSE

(***************************************************************************)
(* Properties                                                              *)
(***************************************************************************)
\* C3: after create(id), only the first of cancel(id) / complete(id) removes
\* the entry. cancel(id) returns true exactly when id was still pending, and
\* then aborts the controller stored for id; a cancel that finds no entry
\* returns false and aborts nothing; complete never aborts, and a complete that
\* finds no entry changes nothing. Entries of other ids are left alone.
C3_FirstOfCancelCompleteWins ==
  [][\A id \in ReqIds :
       /\ cmCall' = <<"cancel", id>> =>
            /\ cmRet' = MapHas(pendingRequests, id)
            /\ ~MapHas(pendingRequests', id)
            /\ aborted' = IF MapHas(pendingRequests, id)
                            THEN aborted \cup {pendingRequests[id]}
                            ELSE aborted
            /\ \A o \in (DOMAIN pendingRequests) \ {id} :
                 MapHas(pendingRequests', o) /\ pendingRequests'[o] = pendingRequests[o]
       /\ cmCall' = <<"complete", id>> =>
            /\ aborted' = aborted
            /\ ~MapHas(pendingRequests', id)
            /\ \A o \in (DOMAIN pendingRequests) \ {id} :
                 MapHas(pendingRequests', o) /\ pendingRequests'[o] = pendingRequests[o]
    ]_vars

\* cancel(id) has just returned false for an id whose controller was created,
\* then completed: the controller is neither pending nor aborted.
C3_Witness ==
  \E id \in ReqIds :
    /\ cmCall = <<"cancel", id>>
    /\ cmRet = FALSE
    /\ ~MapHas(pendingRequests, id)
    /\ \E c \in 1..Len(controllers) : controllers[c] = id /\ c \notin aborted

\* C6: handleProgress for a registered token calls the callback of that token
\* exactly once, with the progress, total and message of the notification
\* (absent fields stay absent), and calls nothing else; for a token that is
\* not registered it calls nothing and raises no error.
C6_ProgressDispatch ==
  [][ptCall' = "handleProgress" =>
       IF MapHas(progressCallbacks, ptNote'.progressToken)
         THEN progressLog' =
                << [cb |-> progressCallbacks[ptNote'.progressToken],
                    info |-> [progress |-> ptNote'.progress,
                              total |-> ptNote'.total,
                              message |-> ptNote'.message]] >>
         ELSE progressLog' = <<>> /\ hpThrew' = FALSE
    ]_vars

\* A notification without total and message has just been dispatched to the
\* callback of its token while another token holds a different callback.
C6_Witness ==
  /\ ptCall = "handleProgress"
  /\ ptNote.total = Absent /\ ptNote.message = Absent
  /\ Len(progressLog) = 1
  /\ progressLog[1].info.total = Absent
  /\ \E t \in DOMAIN progressCallbacks :
       t # ptNote.progressToken /\ progressCallbacks[t] # progressLog[1].cb

\* The number of times callback cb was called with task in a dispatch log.
Deliveries(log, cb, task) ==
  Cardinality({i \in DOMAIN log : log[i] = <<cb, task>>})

\* Callback cb is in the Set the map holds for taskId.
Subscribed(tc, sets, taskId, cb) ==
  MapHas(tc, taskId) /\ cb \in Range(sets[tc[taskId]])

\* C7: handleStatus(task) calls every callback subscribed to task.id exactly
\* once with the task and no callback that is subscribed to another task id
\* only; a throwing subscriber stops neither the remaining deliveries nor
\* makes handleStatus throw.
C7_StatusDelivery ==
  [][tsmCall' = "handleStatus" =>
       /\ hsThrew' = FALSE
       /\ \A i \in DOMAIN delivered' : delivered'[i][2] = tsmTask'
       /\ \A cb \in Callbacks :
            Deliveries(delivered', cb, tsmTask') =
              IF Subscribed(taskCallbacks, cbSets, tsmTask'.id, cb) THEN 1 ELSE 0
    ]_vars

\* handleStatus has just delivered to a throwing subscriber and then to a
\* subscriber registered after it.
C7_Witness ==
  /\ tsmCall = "handleStatus"
  /\ Len(delivered) = 2
  /\ CallbackThrows(delivered[1][1])
  /\ ~CallbackThrows(delivered[2][1])
  /\ hsThrew = FALSE

\* C8: invoking the unsubscribe closure of one subscription never ends the
\* delivery to a callback of a different subscription: a (task, callback) pair
\* other than the closure's own that handleStatus would reach before the call
\* is still reached after it.
C8_UnsubscribeRemovesOnlyOwn ==
  [][tsmCall' = "unsubscribe" =>
       \A j \in 1..Len(closures) :
         (/\ <<closures[j].taskId, closures[j].callback>> #
               <<closures[tsmClosure'].taskId, closures[tsmClosure'].callback>>
          /\ Subscribed(taskCallbacks, cbSets, closures[j].taskId, closures[j].callback))
         => Subscribed(taskCallbacks', cbSets', closures[j].taskId, closures[j].callback)
    ]_vars

\* The last close() call that settled went through this.client.close().
LastCloseRan(log) == Len(log) > 0 /\ log[Len(log)] # "noop"

\* C1: when a close() call made on a connected connection settles, whether
\* the transport close resolved or threw, the connection is disconnected, the
\* progress tracker has no token, the cancellation manager has no pending
\* request and every controller that was pending is aborted, and the
\* task-status manager has no subscription.
C1_CloseClearsEverything ==
  [][(Len(closeLog') > Len(closeLog) /\ LastCloseRan(closeLog')) =>
       /\ ~connected'
       /\ DOMAIN progressCallbacks' = {}
       /\ DOMAIN pendingRequests' = {}
       /\ Range(pendingRequests) \subseteq aborted'
       /\ DOMAIN taskCallbacks' = {}
    ]_vars

\* A close() whose transport close threw has settled while a progress call
\* and a cancellable call were in flight and a status subscription was
\* active: the registries are empty and the controller of the cancellable
\* call is aborted although nobody cancelled it.
C1_Witness ==
  /\ LastCloseRan(closeLog)
  /\ closeLog[Len(closeLog)] = "rejected"
  /\ ~connected
  /\ \E i \in DOMAIN progCalls : progCalls[i].status = "inflight"
  /\ \E i \in DOMAIN cancOps :
       /\ cancOps[i].status = "inflight"
       /\ \E c \in DOMAIN controllers :
            controllers[c] = cancOps[i].requestId /\ c \in aborted
  /\ notifications = <<>>
  /\ \E k \in DOMAIN closures : cbSets[closures[k].set] # <<>>
  /\ DOMAIN progressCallbacks = {}
  /\ DOMAIN pendingRequests = {}
  /\ DOMAIN taskCallbacks = {}

\* C2: once the promise of a callToolCancellable call has settled, for any
\* reason, its requestId is no longer pending in the cancellation manager.
C2_SettledNotPending ==
  \A i \in DOMAIN cancOps :
    cancOps[i].status # "inflight" => ~isPending(pendingRequests, cancOps[i].requestId)

\* The number of notifications/cancelled handed over for requestId.
Notified(log, requestId) ==
  Cardinality({i \in DOMAIN log : log[i] = requestId})

\* C4: a notifications/cancelled is issued for a requestId only if none was
\* issued for it before and the call it belongs to has not settled; none is
\* issued for an id that belongs to no call.
C4_NotifyOncePendingOnly ==
  [][\A id \in KnownRequestIds :
       Notified(notifications', id) > Notified(notifications, id) =>
         /\ Notified(notifications, id) = 0
         /\ \E i \in DOMAIN cancOps :
              cancOps[i].requestId = id /\ cancOps[i].status = "inflight"
    ]_vars

\* Tokens of the progress-aware calls that have not settled.
InflightTokens ==
  {progCalls[i].token : i \in {j \in DOMAIN progCalls : progCalls[j].status = "inflight"}}

\* C5 as stated: the token of a settled callToolWithProgress /
\* readResourceWithProgress call (resolved or rejected) is not registered,
\* and the tracker holds exactly the tokens of the calls in flight.
C5_TrackerHoldsExactlyInflightTokens ==
  /\ \A i \in DOMAIN progCalls :
       progCalls[i].status # "inflight" => ~MapHas(progressCallbacks, progCalls[i].token)
  /\ DOMAIN progressCallbacks = InflightTokens

\* C5, amended: the token of a settled callToolWithProgress /
\* readResourceWithProgress call (resolved or rejected) is not registered;
\* the tracker never holds a token of anything but a call in flight; as long
\* as no close() has cleared the tracker it holds exactly the tokens of the
\* calls in flight, and once a close() has, it holds none at all.
C5_TrackerHoldsInflightTokens ==
  /\ \A i \in DOMAIN progCalls :
       progCalls[i].status # "inflight" => ~MapHas(progressCallbacks, progCalls[i].token)
  /\ DOMAIN progressCallbacks \subseteq InflightTokens
  /\ (\A k \in DOMAIN closeLog : closeLog[k] = "noop")
       => DOMAIN progressCallbacks = InflightTokens
  /\ (\E k \in DOMAIN closeLog : closeLog[k] # "noop")
       => DOMAIN progressCallbacks = {}

\* Two progress-aware calls on an open connection, the first issued with a
\* token and failed, the second still in flight: the tracker holds the token
\* of the second and no other.
C5_Witness ==
  /\ connected
  /\ Len(progCalls) = 2
  /\ progCalls[1].status = "rejected"
  /\ progCalls[1].token # NoToken
  /\ progCalls[2].status = "inflight"
  /\ DOMAIN progressCallbacks = {progCalls[2].token}

\* C9: with getTask returning s1..sn, sn the first terminal state, waitForTask
\* calls getTask once per snapshot and never after a terminal one, the loop
\* calls onStatus exactly once per snapshot in order, getTaskResult is called
\* exactly once (never before a terminal snapshot), and the promise resolves
\* with the payload getTaskResult resolved with.
C9_PollsUntilTerminal ==
  LET n == Len(wSnaps)
      terminal == {"completed", "failed", "canceled"}
      seenTerminal == \E i \in 1..n : wSnaps[i] \in terminal
      threw == wOutcome.kind = "onStatus"
  IN /\ wOpts.onStatus # NoCallback =>
          loopLog = [i \in 1..n |-> [id |-> wTask, state |-> wSnaps[i]]]
     /\ getTaskCalls \in {n, n + 1}
     /\ \A i \in 1..n : wSnaps[i] \in terminal => i = n
     /\ seenTerminal => getTaskCalls = n
     /\ getTaskResultCalls = IF seenTerminal /\ ~threw THEN 1 ELSE 0
     /\ wOutcome.kind = "resolved" =>
          seenTerminal /\ resultSent # Absent /\ wOutcome.value = resultSent
     /\ (wpc = "done" /\ resultSent # Absent) => wOutcome.kind = "resolved"

\* Three polls returned pending, running, completed; onStatus was called three
\* times by the loop and the promise resolved with the payload.
C9_Witness ==
  /\ wpc = "done"
  /\ wOutcome.kind = "resolved"
  /\ wSnaps = <<"pending", "running", "completed">>
  /\ Len(loopLog) = 3
  /\ getTaskCalls = 3
  /\ getTaskResultCalls = 1

\* C10: when the signal is aborted while waitForTask waits on a task that has
\* not reached a terminal state (a poll in flight, or the sleep between two
\* polls) and nothing else fails, waitForTask rejects with TaskAbortedError
\* carrying the task id.
C10_AbortRejectsWithTaskAbortedError ==
  (/\ wpc = "done"
   /\ abortPhase \in {"polling", "sleeping"}
   /\ \A i \in DOMAIN wSnaps : wSnaps[i] \notin {"completed", "failed", "canceled"}
   /\ wOutcome.kind \notin {"getTask", "onStatus"})
  => (wOutcome.kind = "TaskAbortedError" /\ wOutcome.taskId = wTask)

\* C11: with a timeout supplied (0 included), once the time elapsed since the
\* start of the wait exceeds the timeout, the loop does not go on polling: when
\* the sleep ends (no abort) the wait rejects with TaskTimeoutError carrying
\* the task id and the timeout; the start time is never reset.
C11_TimeoutRejects ==
  [][/\ (wpc # "idle" => startTime' = startTime)
     /\ (/\ wpc = "sleeping"
         /\ wpc' # "sleeping"
         /\ ~signalAborted'
         /\ wOpts.timeout # Absent
         /\ now - startTime > wOpts.timeout[1])
        => wOutcome' = [kind |-> "TaskTimeoutError", taskId |-> wTask,
                        timeoutMs |-> wOpts.timeout, value |-> Absent]]_vars

\* C12: once the promise of waitForTask has settled, the subscription it
\* created through onTaskStatus has been unsubscribed exactly once and its
\* callback is no longer registered; it is never unsubscribed twice.
C12_UnsubscribedExactlyOnce ==
  /\ unsubCalls <= 1
  /\ (wpc = "done" /\ wUnsub # 0) =>
       /\ unsubCalls = 1
       /\ ~hasSubscribers(taskCallbacks, cbSets, wTask)
  /\ wUnsub = 0 => unsubCalls = 0

\* A wait with onStatus whose signal was aborted while a poll was in flight:
\* the poll returned a task that is not terminal, sleep() rejected, and the
\* wait has ended with the subscription removed once.
C12_Witness ==
  /\ wpc = "done"
  /\ wUnsub # 0
  /\ abortPhase = "polling"
  /\ wOutcome = SleepAbortedError
  /\ unsubCalls = 1
  /\ ~hasSubscribers(taskCallbacks, cbSets, wTask)

\* C13: called with a signal that is already aborted, waitForTask rejects
\* with TaskAbortedError carrying the task id, and getTask and getTaskResult
\* are never called.
C13_PreAbortedMakesNoCall ==
  (wpc # "idle" /\ wOpts.signal /\ abortPhase = "idle") =>
    /\ wpc = "done"
    /\ wOutcome.kind = "TaskAbortedError"
    /\ wOutcome.taskId = wTask
    /\ getTaskCalls = 0
    /\ getTaskResultCalls = 0
    /\ wSnaps = <<>>

\* The signal was aborted before the call, and the call has been made with it.
C13_Witness ==
  /\ wpc = "done"
  /\ wOpts.signal
  /\ abortPhase = "idle"
  /\ wOutcome.kind = "TaskAbortedError"

\* C14: however many close() calls are made on a connection that was
\* connected, overlapping ones included, the SDK client's close is invoked
\* exactly once and no close() call after the first rejects.
C14_CloseClosesTransportOnce ==
  cpc = "returned" =>
    /\ transportCloses <= 1
    /\ \A i \in 2..Len(closeLog) : closeLog[i] # "rejected"

\* C15: a request-issuing operation invoked while the connection is not
\* connected fails with MCPConnectionError and hands nothing to the SDK
\* client; invoked while connected it hands its request over.
C15_NotConnectedOpsFail ==
  [][opCount' = opCount + 1 =>
       IF connected
         THEN sdkCalls' = sdkCalls + 1 /\ opError' = opError
         ELSE /\ opError' = "MCPConnectionError"
              /\ sdkCalls' = sdkCalls
              /\ transportCloses' = transportCloses
              /\ notifications' = notifications
              /\ (progCalls' # progCalls =>
                    progCalls'[Len(progCalls')].status = "rejected")
              /\ (cancOps' # cancOps =>
                    cancOps'[Len(cancOps')].status = "rejected")]_vars

\* getTask was invoked on a closed connection: MCPConnectionError, and the
\* SDK client was never given a request.
C15_Witness ==
  /\ cpc = "returned"
  /\ ~connected
  /\ Len(closeLog) > 0
  /\ lastOp = "getTask"
  /\ opError = "MCPConnectionError"
  /\ sdkCalls = 0

\* C16: when the timer wins the race, connect calls transport.close(), and
\* whatever that close does, the factory rejects with MCPTimeoutError carrying
\* options.connectionTimeout; the connection is not connected then and stays
\* so, also when the handshake completes afterwards.
C16_TimeoutClosesThenFails ==
  [][/\ (cpc = "racing" /\ cpc' # "racing" /\ handshake' = handshake) =>
          /\ cpc' = "timeoutClosing"
          /\ transportCloses' = transportCloses + 1
     /\ (cpc = "timeoutClosing" /\ cpc' # "timeoutClosing") =>
          /\ cpc' = "failed"
          /\ connectError'.kind = "MCPTimeoutError"
          /\ connectError'.timeoutMs = Some(connectionTimeout)
     /\ cpc \in {"timeoutClosing", "failed"} =>
          /\ cpc' \in {"timeoutClosing", "failed"}
          /\ ~connected /\ ~connected'
          /\ connectionTimeout' = connectionTimeout]_vars

\* The factory timed out with the default timeout and the handshake completed
\* afterwards: MCPTimeoutError(30000), not connected.
C16_Witness ==
  /\ cpc = "failed"
  /\ connectError.kind = "MCPTimeoutError"
  /\ connectError.timeoutMs = Some(DEFAULT_CONNECTION_TIMEOUT)
  /\ transportCloses = 1
  /\ handshake.state = "resolved"
  /\ ~connected

\* C17: a handshake that rejects before the timer fires makes the factory
\* reject with MCPConnectionError wrapping the cause (as .cause when it is an
\* Error, and by its text in the message), the connection not connected; and
\* until close() is called the connection is connected exactly when the
\* handshake resolved before the timer.
C17_HandshakeFailureWrapped ==
  /\ (cpc = "failed" /\ connectError.kind # "MCPTimeoutError") =>
       /\ connectError.kind = "MCPConnectionError"
       /\ handshake.state = "rejected"
       /\ connectError.message =
            "Failed to connect to MCP server: " \o handshake.cause[1].text
       /\ handshake.cause[1].isError => connectError.cause = handshake.cause
       /\ ~connected
  /\ cpc = "failed" => ~connected
  /\ cpc = "returned" => handshake.state = "resolved" /\ connectError = NoError
  /\ closeLog = <<>> => (connected <=> cpc = "returned")

\* The handshake was refused: MCPConnectionError with the Error as its cause.
C17_Witness ==
  /\ cpc = "failed"
  /\ connectError.kind = "MCPConnectionError"
  /\ connectError.cause # Absent
  /\ connectError.cause[1].text = "ECONNREFUSED"
  /\ ~connected

\* C18: addServer never replaces a registered connection: a registry entry,
\* once set, keeps its client, and of the addServer calls that use one name
\* (overlapping ones included) at most one succeeds.
C18_AddServerNeverOverwrites ==
  [][/\ \A i \in DOMAIN clients : clients'[i] = clients[i]
     /\ \A i, j \in DOMAIN attempts' :
          (i # j /\ attempts'[i].name = attempts'[j].name)
            => ~(attempts'[i].status = "connected" /\ attempts'[j].status = "connected")
    ]_vars

\* C19: in parallel mode at most maxConcurrent of loadConfig's connection
\* attempts are in flight at once, and when an attempt of a later chunk has
\* been started every entry of the earlier chunks has been attempted and has
\* settled (chunks: consecutive runs of maxConcurrent entries).
C19_ParallelChunksBounded ==
  LET mc == mgrOptions.maxConcurrent
      mine == {i \in DOMAIN attempts : attempts[i].origin = "loadConfig"}
      chunkOf(e) == (e - 1) \div mc
  IN (mgrOptions.made /\ mgrOptions.parallelConnect) =>
       /\ Cardinality({i \in mine : attempts[i].status = "connecting"}) <= mc
       /\ \A j \in mine : \A e \in 1..Len(lcEntries) :
            chunkOf(e) < chunkOf(attempts[j].entry) =>
              \E i \in mine : /\ attempts[i].entry = e
                              /\ attempts[i].status # "connecting"

\* maxConcurrent 2, three entries: the two attempts of the first chunk were
\* in flight together and have both settled, the second before the first,
\* and the attempt of the third entry, of the next chunk, is in flight.
C19_Witness ==
  /\ mgrOptions.made
  /\ mgrOptions.parallelConnect
  /\ mgrOptions.maxConcurrent = 2
  /\ Len(lcEntries) = 3
  /\ lcPc = "running"
  /\ lcChunk = 2
  /\ Len(clients) = 2
  /\ clients[1].name = ServerName(2)
  /\ clients[2].name = ServerName(1)
  /\ \E i, j, k \in DOMAIN attempts :
       /\ attempts[i].origin = "loadConfig" /\ attempts[i].entry = 1
       /\ attempts[i].status = "connected"
       /\ attempts[j].origin = "loadConfig" /\ attempts[j].entry = 2
       /\ attempts[j].status = "connected"
       /\ attempts[k].origin = "loadConfig" /\ attempts[k].entry = 3
       /\ attempts[k].status = "connecting"

\* C20: in parallel mode loadConfig never rejects; when it has resolved,
\* every entry of the configuration has been attempted exactly once, whatever
\* happened to the others, and the registry holds exactly the names whose
\* connection succeeded.
C20_ParallelToleratesFailures ==
  LET mine == {i \in DOMAIN attempts : attempts[i].origin = "loadConfig"}
  IN (mgrOptions.made /\ mgrOptions.parallelConnect) =>
       /\ lcPc # "rejected"
       /\ lcPc = "resolved" =>
            /\ \A e \in 1..Len(lcEntries) :
                 /\ Cardinality({i \in mine : attempts[i].entry = e}) = 1
                 /\ \A i \in mine : attempts[i].entry = e =>
                      /\ attempts[i].name = lcEntries[e].name
                      /\ attempts[i].status \in {"connected", "failed"}
            /\ {clients[k].name : k \in DOMAIN clients} =
                 {attempts[i].name : i \in {x \in DOMAIN attempts :
                                              attempts[x].status = "connected"}}

\* A configuration of three entries, the first invalid, the second failing
\* to connect, the third connected: loadConfig resolved with one server
\* registered.
C20_Witness ==
  /\ mgrOptions.made
  /\ mgrOptions.parallelConnect
  /\ lcPc = "resolved"
  /\ Len(lcEntries) = 3
  /\ \E i, j, k \in DOMAIN attempts :
       /\ attempts[i].origin = "loadConfig" /\ attempts[i].entry = 1
       /\ attempts[i].status = "failed" /\ attempts[i].error = "config"
       /\ attempts[j].origin = "loadConfig" /\ attempts[j].entry = 2
       /\ attempts[j].status = "failed" /\ attempts[j].error = "connect"
       /\ attempts[k].origin = "loadConfig" /\ attempts[k].entry = 3
       /\ attempts[k].status = "connected"
  /\ Len(clients) = 1
  /\ clients[1].name = ServerName(3)

\* C21: in sequential mode loadConfig attempts the entries one at a time in
\* configuration order, an entry only after the one before it has connected;
\* it rejects only when an attempt has failed, and once an attempt has
\* failed it awaits nothing further, being rejected or about to be; no
\* entry after the failing one is attempted, and the names connected before it
\* stay registered.
C21_SequentialStopsAtFirstFailure ==
  LET mine == {i \in DOMAIN attempts : attempts[i].origin = "loadConfig"}
  IN (mgrOptions.made /\ mgrOptions.parallelConnect = FALSE) =>
       /\ Cardinality({i \in mine : attempts[i].status = "connecting"}) <= 1
       /\ \A i \in mine :
            /\ attempts[i].entry \in 1..Len(lcEntries)
            /\ attempts[i].name = lcEntries[attempts[i].entry].name
            /\ \A j \in mine : i < j => attempts[i].entry < attempts[j].entry
            /\ \A e \in 1..(attempts[i].entry - 1) :
                 \E j \in mine : /\ j < i
                                 /\ attempts[j].entry = e
                                 /\ attempts[j].status = "connected"
            /\ attempts[i].status = "connected" => MgrHas(clients, attempts[i].name)
       /\ lcPc = "rejected" => \E i \in mine : attempts[i].status = "failed"
       /\ (\E i \in mine : attempts[i].status = "failed") =>
            /\ lcPc \in {"running", "rejected"}
            /\ \A i \in mine : attempts[i].status # "connecting"
       /\ lcPc = "resolved" =>
            \A e \in 1..Len(lcEntries) :
              \E i \in mine : attempts[i].entry = e /\ attempts[i].status = "connected"

\* Two entries in sequential mode: the first connected, the second failed to
\* connect; loadConfig rejected and the first server is registered.
C21_Witness ==
  /\ mgrOptions.made
  /\ mgrOptions.parallelConnect = FALSE
  /\ Len(lcEntries) = 2
  /\ lcPc = "rejected"
  /\ \E i, j \in DOMAIN attempts :
       /\ attempts[i].origin = "loadConfig" /\ attempts[i].entry = 1
       /\ attempts[i].status = "connected"
       /\ attempts[j].origin = "loadConfig" /\ attempts[j].entry = 2
       /\ attempts[j].status = "failed" /\ attempts[j].error = "connect"
  /\ MgrHas(clients, ServerName(1))

\* C22: every callTool(name) of the manager either calls exactly the
\* connection registered under the text before the first '.' of name, with
\* the text after that '.' as tool name, or - when name has no '.', nothing
\* stands before the first '.', or no server of that name is registered -
\* fails and calls no connection.
C22_CallToolSplitsAtFirstDot ==
  [][(mgrOp'.n = mgrOp.n + 1 /\ mgrOp'.op = "callTool") =>
       LET name == mgrOp'.arg
           dots == {i \in DOMAIN name : name[i] = "."}
           first == CHOOSE i \in dots : \A j \in dots : i <= j
           before == SubSeq(name, 1, first - 1)
           after == SubSeq(name, first + 1, Len(name))
           owners == {k \in DOMAIN clients : clients[k].name = before}
       IN IF dots = {} \/ before = <<>> \/ owners = {}
            THEN /\ mgrOp'.status = "rejected"
                 /\ connCalls' = connCalls
            ELSE /\ mgrOp'.status = "forwarded"
                 /\ \E k \in owners :
                      connCalls' = Append(connCalls, [client |-> clients[k].client,
                                                      op |-> "callTool",
                                                      arg |-> after])
    ]_vars

\* callTool("a.b.c") with server "a" registered: the connection of "a" was
\* called with tool name "b.c".
C22_Witness ==
  /\ mgrOp.op = "callTool"
  /\ mgrOp.arg = <<"a", ".", "b", ".", "c">>
  /\ mgrOp.status = "forwarded"
  /\ Len(connCalls) > 0
  /\ connCalls[Len(connCalls)].op = "callTool"
  /\ connCalls[Len(connCalls)].arg = <<"b", ".", "c">>
  /\ \E k \in DOMAIN clients : /\ clients[k].name = <<"a">>
                               /\ clients[k].client = connCalls[Len(connCalls)].client

\* C23: in the result of the manager's listAllTools, entries of distinct
\* (server, tool) pairs have distinct namespaced names, and callTool with an
\* entry's namespaced name calls the connection the entry came from with the
\* tool's original name.
C23_ListedNamesRouteBack ==
  [][(mgrOp.op = "tools" /\ mgrOp.status = "resolved") =>
       /\ \A i, j \in DOMAIN mgrOp.acc :
            (mgrOp.acc[i].server # mgrOp.acc[j].server
               \/ mgrOp.acc[i].original # mgrOp.acc[j].original)
              => mgrOp.acc[i].name # mgrOp.acc[j].name
       /\ \A i \in DOMAIN mgrOp.acc :
            (mgrOp'.n = mgrOp.n + 1 /\ mgrOp'.op = "callTool"
               /\ mgrOp'.arg = mgrOp.acc[i].name)
              => connCalls' = Append(connCalls, [client |-> mgrOp.acc[i].client,
                                                 op |-> "callTool",
                                                 arg |-> mgrOp.acc[i].original])
    ]_vars

\* C24: readResource(uri) asks the registered servers in insertion order,
\* one at a time: every reply but the last was a rejection, a successful
\* reply ends the call with that server's name and no further server is
\* asked, and the call fails only when every registered server has rejected.
C24_ReadResourceFirstSuccess ==
  [][mgrOp'.op = "readResource" =>
       LET replies == mgrOp'.acc
           k == Len(replies)
           asked == IF mgrOp'.status = "awaiting" THEN k + 1 ELSE k
       IN /\ Len(connCalls') = mgrOp'.callsBefore + asked
          /\ asked <= Len(clients')
          /\ \A i \in 1..asked :
               connCalls'[mgrOp'.callsBefore + i] =
                 [client |-> clients'[i].client, op |-> "readResource",
                  arg |-> mgrOp'.arg]
          /\ \A i \in 1..k : replies[i].client = clients'[i].client
          /\ \A i \in 1..(k - 1) : replies[i].ok = FALSE
          /\ (mgrOp'.status = "resolved") = (k > 0 /\ replies[k].ok)
          /\ mgrOp'.status = "resolved" => mgrOp'.server = clients'[k].name
          /\ mgrOp'.status = "rejected" =>
               /\ \A i \in 1..k : replies[i].ok = FALSE
               /\ mgrOp' # mgrOp => k = Len(clients)
    ]_vars

\* Two servers registered: the first rejected the URI, the second served it;
\* the result carries the second server's name.
C24_Witness ==
  /\ mgrOp.op = "readResource"
  /\ mgrOp.status = "resolved"
  /\ Len(clients) = 2
  /\ Len(mgrOp.acc) = 2
  /\ mgrOp.acc[1].ok = FALSE
  /\ mgrOp.acc[2].ok
  /\ mgrOp.server = clients[2].name

\* C28: every entry returned by the manager's listAllTools, listAllResources
\* and listAllPrompts is named "<serverName>.<originalName>", carries the
\* name of the server it came from in its server field, and the entries stand
\* grouped by server in the insertion order of the registry.
C28_ListedEntriesNamespaced ==
  (mgrOp.op \in {"tools", "resources", "prompts"} /\ mgrOp.status = "resolved") =>
    LET entries == mgrOp.acc
        place(e) == CHOOSE k \in DOMAIN clients : clients[k].client = e.client
    IN /\ \A i \in DOMAIN entries :
            /\ entries[i].name = entries[i].server \o <<".">> \o entries[i].original
            /\ \E k \in DOMAIN clients : /\ clients[k].client = entries[i].client
                                         /\ clients[k].name = entries[i].server
       /\ \A i, j \in DOMAIN entries :
            i < j => place(entries[i]) <= place(entries[j])

\* C25: removeServer(name) of a name that is not registered returns false
\* and changes nothing; of a registered name it calls close() on that name's
\* connection and, once that close has settled - failed or not -, returns
\* true with the name no longer registered.
C25_RemoveServerEvicts ==
  [][/\ Len(rmOps') = Len(rmOps) + 1 =>
          LET call == rmOps'[Len(rmOps')]
              owners == {k \in DOMAIN clients : clients[k].name = call.name}
          IN IF owners = {}
               THEN /\ call.status = "resolved"
                    /\ call.ret = Some(FALSE)
                    /\ clients' = clients
                    /\ closeCalls' = closeCalls
               ELSE \E k \in owners :
                      closeCalls' = Append(closeCalls,
                                           [client |-> clients[k].client,
                                            by |-> "removeServer",
                                            ref |-> Len(rmOps'),
                                            status |-> closeBegin(closeCalls,
                                                                  clients[k].client)])
     /\ \A r \in DOMAIN rmOps :
          (rmOps[r].status = "closing" /\ rmOps'[r].status # "closing") =>
            /\ rmOps'[r].status = "resolved"
            /\ rmOps'[r].ret = Some(TRUE)
            /\ \A k \in DOMAIN clients' : clients'[k].name # rmOps[r].name
    ]_vars

\* C26: closeAll calls close() on every connection registered at the time
\* of the call, and closeAllMCPClients on every client of its array; neither
\* ever rejects, whatever the closes do; each resolves only after all its
\* closes have settled, and closeAll leaves the registry empty when it
\* resolves.
C26_CloseAllSwallowsFailures ==
  [][/\ Len(closeOps') = Len(closeOps) + 1 =>
          LET op == closeOps'[Len(closeOps')]
              targets == IF op.by = "closeAll"
                           THEN [k \in DOMAIN clients |-> clients[k].client]
                           ELSE op.targets
          IN /\ Len(closeCalls') = Len(closeCalls) + Len(targets)
             /\ \A k \in DOMAIN targets :
                  LET call == closeCalls'[Len(closeCalls) + k]
                  IN /\ call.client = targets[k]
                     /\ call.by = op.by
                     /\ call.ref = Len(closeOps')
                     /\ call.status \in {"pending", "returned"}
     /\ \A q \in DOMAIN closeOps' :
          LET mine == {i \in DOMAIN closeCalls' :
                         /\ closeCalls'[i].by = closeOps'[q].by
                         /\ closeCalls'[i].ref = q}
          IN /\ closeOps'[q].status \in {"closing", "resolved"}
             /\ (closeOps'[q].status = "resolved") =>
                  (\A i \in mine : closeCalls'[i].status # "pending")
             /\ (/\ closeOps'[q].by = "closeAll"
                 /\ closeOps'[q].status = "resolved"
                 /\ (q \notin DOMAIN closeOps \/ closeOps[q].status # "resolved"))
                  => clients' = <<>>
    ]_vars

\* closeAll on two registered connections, the close of the first failed and
\* that of the second succeeded: closeAll resolved and the registry is empty.
C26_Witness ==
  /\ Len(closeOps) = 1
  /\ closeOps[1].by = "closeAll"
  /\ closeOps[1].status = "resolved"
  /\ Len(closeOps[1].targets) = 2
  /\ \E i, j \in DOMAIN closeCalls :
       /\ closeCalls[i].by = "closeAll" /\ closeCalls[i].client = closeOps[1].targets[1]
       /\ closeCalls[i].status = "failed"
       /\ closeCalls[j].by = "closeAll" /\ closeCalls[j].client = closeOps[1].targets[2]
       /\ closeCalls[j].status = "closed"
  /\ clients = <<>>

\* C27: when the clients report pairwise distinct identities, the Map built
\* by aggregateMCPTools holds exactly one entry for each (client, tool) pair,
\* under the key "<identity>.<toolName>"; routeMCPToolCall with the key of a
\* pair calls that pair's client, and no other, with the tool's original
\* name; with any other key it fails as unknown tool and calls no client.
C27_AggregateRoutesToOwner ==
  (/\ toolMap # Absent
   /\ \A c \in DOMAIN aggClients : aggClients[c].identity # Absent
   /\ \A c, d \in DOMAIN aggClients :
        c # d => aggClients[c].identity # aggClients[d].identity) =>
    LET m == toolMap[1]
        pairs == UNION {{<<c, aggClients[c].tools[t]>> :
                           t \in DOMAIN aggClients[c].tools} :
                        c \in DOMAIN aggClients}
        keyOf(pr) == aggClients[pr[1]].identity[1] \o <<".">> \o pr[2]
        owners == {pr \in pairs : keyOf(pr) = routed.key}
    IN /\ Len(m) = Cardinality(pairs)
       /\ \A pr \in pairs :
            \E i \in DOMAIN m : /\ m[i].client = pr[1]
                                /\ m[i].originalName = pr[2]
                                /\ m[i].key = keyOf(pr)
       /\ routed # NoRoute =>
            IF owners = {}
              THEN routed.error = "unknown-tool" /\ routed.client = 0
              ELSE /\ routed.error = "none"
                   /\ \A pr \in owners : routed.client = pr[1] /\ routed.arg = pr[2]

\* The items of the pages, concatenated in order.
RECURSIVE ItemsOf(_)
ItemsOf(pages) ==
  IF pages = <<>> THEN <<>> ELSE pages[1].items \o ItemsOf(Tail(pages))

\* C29: a listAll* helper asks for the first page without a cursor and for
\* every further page with the nextCursor of the page before, unchanged; it
\* asks for a further page only after a page that has a cursor (a non-empty
\* nextCursor), returns as soon as a page has none, with the items of all
\* pages received concatenated in order, and issues no request after that
\* page: k pages, k requests. While the helper is pending it has one request
\* more than pages, or, when the connection was closed before the turn, no
\* request for the page it would ask for next.
C29_ListAllFollowsCursor ==
  pageOp.kind \in {"tools", "resources", "prompts"} =>
    LET requests == pageOp.requests
        pages == pageOp.pages
        k == Len(pages)
        has(c) == c # Absent /\ c # Some("")
    IN /\ Len(requests) > 0 => requests[1] = Absent
       /\ \A i \in 2..Len(requests) :
            /\ i - 1 <= k
            /\ has(pages[i - 1].nextCursor)
            /\ requests[i] = pages[i - 1].nextCursor
       /\ Len(requests) = IF pageOp.status = "resolved" THEN k
                          ELSE IF pageOp.status = "awaiting" /\ connected THEN k + 1
                          ELSE Len(requests)
       /\ pageOp.status = "awaiting" =>
            /\ Len(requests) \in {k, k + 1}
            /\ Len(requests) = k => opError = "MCPConnectionError" /\ ~connected
            /\ k > 0 => has(pages[k].nextCursor)
       /\ k <= Len(requests)
       /\ \A i \in 1..(k - 1) : has(pages[i].nextCursor)
       /\ (pageOp.status = "resolved") = (k > 0 /\ ~has(pages[k].nextCursor))
       /\ pageOp.items = ItemsOf(pages)

\* Two pages, the first with a cursor and the second without: two requests,
\* the second carrying the first page's cursor, and the items of both pages
\* returned in order.
C29_Witness ==
  /\ pageOp.kind = "tools"
  /\ pageOp.status = "resolved"
  /\ Len(pageOp.pages) = 2
  /\ pageOp.pages[1] = [items |-> <<"item-1">>, nextCursor |-> Some("cur-a")]
  /\ pageOp.pages[2] = [items |-> <<"item-2", "item-3">>, nextCursor |-> Absent]
  /\ pageOp.requests = <<Absent, Some("cur-a")>>
  /\ pageOp.items = <<"item-1", "item-2", "item-3">>

\* C30: once the cancel function of a callToolCancellable call has taken
\* effect while the call was pending (its notifications/cancelled has been
\* handed over), the call's promise does not resolve with the tool's result.
C30_CancelledNeverResolves ==
  [][\A i \in DOMAIN cancOps :
       (/\ cancOps[i].status = "inflight"
        /\ Notified(notifications, cancOps[i].requestId) > 0)
         => cancOps'[i].status # "resolved"
    ]_vars

(***************************************************************************)
(* Configuration entries of every shape: validateMCPConfig and addServer.  *)
(***************************************************************************)
\* JavaScript values of a field, by the classes the code tells apart:
\* undefined, the empty string, a non-empty string, a number, an array, a
\* plain object, null.
Undefined == "undefined"
EmptyString == "''"
NonEmptyString == "'x'"
NumberValue == "42"
ArrayValue == "[]"
ObjectValue == "{}"
NullValue == "null"

\* typeof v === 'string'
IsString(v) == v \in {EmptyString, NonEmptyString}

\* Array.isArray(v)
IsArray(v) == v = ArrayValue

\* typeof v === 'object' (null and arrays included)
IsObject(v) == v \in {ObjectValue, ArrayValue, NullValue}

\* The truthiness of v, as `if (v)` and `!v` test it.
TruthyValue(v) == v \in {NonEmptyString, NumberValue, ArrayValue, ObjectValue}

\* An entry with every field undefined.
EmptyEntry ==
  [type |-> ObjectValue, command |-> Undefined, url |-> Undefined,
   args |-> Undefined, env |-> Undefined, headers |-> Undefined, cwd |-> Undefined]

\* Server entries that are objects: command and url of every class with the
\* optional fields undefined, and a stdio entry with one optional field
\* holding a value of the expected or of another type.
ShapeConfigs ==
  {[EmptyEntry EXCEPT !.command = c, !.url = u] :
     c, u \in {Undefined, EmptyString, NonEmptyString, NumberValue}}
    \cup {[EmptyEntry EXCEPT !.command = NonEmptyString, !.args = v] :
            v \in {ArrayValue, NonEmptyString}}
    \cup {[EmptyEntry EXCEPT !.command = NonEmptyString, !.env = v] :
            v \in {ObjectValue, NullValue}}
    \cup {[EmptyEntry EXCEPT !.command = NonEmptyString, !.headers = v] :
            v \in {ObjectValue, NullValue}}
    \cup {[EmptyEntry EXCEPT !.command = NonEmptyString, !.cwd = v] :
            v \in {NonEmptyString, NumberValue}}

\* The values of an entry of config.mcpServers: the objects, and null.
ShapeEntries == ShapeConfigs \cup {[EmptyEntry EXCEPT !.type = NullValue]}

\* A stdio entry with the optional fields undefined.
StdioEntry == [EmptyEntry EXCEPT !.command = NonEmptyString]

\* Objects of up to MaxServers entries: stdio entries, and at one key an
\* entry of any shape.
ShapeObjects ==
  {<<>>} \cup
  UNION {{[i \in 1..n |-> IF i = k THEN e ELSE StdioEntry] :
            k \in 1..n, e \in ShapeEntries} : n \in 1..MaxServers}

\* The arguments of validateMCPConfig: null, an object whose mcpServers is
\* undefined or a string, and objects whose mcpServers is one of the
\* objects above.
ShapeInputs ==
  {[type |-> NullValue, mcpServers |-> [type |-> Undefined, entries |-> <<>>]]}
    \cup {[type |-> ObjectValue, mcpServers |-> [type |-> t, entries |-> <<>>]] :
            t \in {Undefined, NonEmptyString}}
    \cup {[type |-> ObjectValue, mcpServers |-> [type |-> ObjectValue, entries |-> e]] :
            e \in ShapeObjects}

NoShapeInput == [type |-> Undefined, mcpServers |-> [type |-> Undefined, entries |-> <<>>]]

\* validateMCPConfig(config): false for a config or an mcpServers that is not
\* an object, and as soon as an entry is not an object, has neither a string
\* command nor a string url, or has args, env or cwd of another type; the
\* test on headers returns nothing.
validateMCPConfig(config) ==
  /\ TruthyValue(config.type) /\ IsObject(config.type)
  /\ TruthyValue(config.mcpServers.type) /\ IsObject(config.mcpServers.type)
  /\ \A i \in DOMAIN config.mcpServers.entries :
       LET server == config.mcpServers.entries[i]
           hasCommand == IsString(server.command)
           hasUrl == IsString(server.url)
       IN /\ TruthyValue(server.type) /\ IsObject(server.type)
          /\ ~(~hasCommand /\ ~hasUrl)
          /\ ~(server.args # Undefined /\ ~IsArray(server.args))
          /\ ~(server.env # Undefined
                 /\ (server.env = NullValue \/ ~IsObject(server.env)
                       \/ IsArray(server.env)))
          /\ ~(server.cwd # Undefined /\ ~IsString(server.cwd))

\* validateMCPConfig(config) is called.
ValidateMCPConfig(config) ==
  /\ cfgCalls' = <<[op |-> "validateMCPConfig", config |-> config,
                    entry |-> EmptyEntry,
                    ret |-> validateMCPConfig(config), attempt |-> 0]>>
  /\ UNCHANGED <<cmVars, ptVars, tsmVars, connVars, waitVars, lifeVars, mgrVars>>
  /\ UNCHANGED <<routeVars, regVars, aggVars, pageVars, tokVars, envVars, relVars,
                 chunkVars, rootVars>>

\* What createClient tests of an entry: `if (config.url)`, `if
\* (config.command)`.
ShapeTests(config) == [command |-> TruthyValue(config.command), url |-> TruthyValue(config.url)]

\* addServer(name, config) with an entry of any shape, up to its await.
AddServerShape(name, config) ==
  /\ mgrOptions.made
  /\ Cardinality({i \in DOMAIN attempts : attempts[i].origin = "addServer"}) < MaxAdds
  /\ attempts' = addServerBegin(clients, attempts, name, ShapeTests(config),
                                "addServer", 0)
  /\ cfgCalls' = <<[op |-> "addServer", config |-> NoShapeInput,
                    entry |-> config,
                    ret |-> FALSE, attempt |-> Len(attempts) + 1]>>
  /\ UNCHANGED <<mgrOptions, clients, lcPc, lcEntries, lcChunk>>
  /\ UNCHANGED <<cmVars, ptVars, tsmVars, connVars, waitVars, lifeVars>>
  /\ UNCHANGED <<routeVars, regVars, aggVars, pageVars, tokVars, envVars, relVars,
                 chunkVars, rootVars>>

\* An entry as the configuration type describes it: an object whose command
\* and url are undefined or non-empty strings and whose optional fields are
\* undefined or of their type.
TypedEntry(e) ==
  /\ e.type = ObjectValue
  /\ e.command \in {Undefined, NonEmptyString}
  /\ e.url \in {Undefined, NonEmptyString}
  /\ e.args \in {Undefined, ArrayValue}
  /\ e.env \in {Undefined, ObjectValue}
  /\ e.headers \in {Undefined, ObjectValue}
  /\ e.cwd \in {Undefined, NonEmptyString}

\* C34: for a configuration object whose entries are as the configuration
\* type describes them, validateMCPConfig returns true exactly when every
\* entry holds exactly one of command and url; addServer of an unregistered
\* name with such an entry raises the configuration error exactly when the
\* entry does not hold exactly one of them, and an entry so rejected is
\* never registered.
C34_AcceptedIffExactlyOneShape ==
  [][/\ (cfgCalls' # cfgCalls) =>
          LET call == cfgCalls'[1]
              present(v) == v # Undefined
          IN IF call.op = "validateMCPConfig"
               THEN (/\ call.config.type = ObjectValue
                     /\ call.config.mcpServers.type = ObjectValue
                     /\ \A i \in DOMAIN call.config.mcpServers.entries :
                          TypedEntry(call.config.mcpServers.entries[i])) =>
                      call.ret = (\A i \in DOMAIN call.config.mcpServers.entries :
                                    LET e == call.config.mcpServers.entries[i]
                                    IN present(e.command) # present(e.url))
               ELSE LET a == attempts'[call.attempt]
                    IN /\ (TypedEntry(call.entry) /\ a.error # "exists") =>
                            ((a.error = "config")
                               <=> (present(call.entry.command)
                                      = present(call.entry.url)))
                       /\ a.error = "config" => clients' = clients
     /\ \A i \in DOMAIN attempts' :
          attempts'[i].error = "config" =>
            \A k \in DOMAIN clients' : clients'[k].client # i
    ]_vars

(***************************************************************************)
(* Environment variable expansion: loadConfig and loadConfigFile.          *)
(***************************************************************************)
\* The variables of the environment: A is set, no other name is.
ProcessEnv == {[name |-> <<"A">>, value |-> <<"s", "1">>]}

\* The names process.env inherits: the methods of Object.prototype, and
\* constructor and __proto__.
InheritedMethods ==
  {<<"t", "o", "S", "t", "r", "i", "n", "g">>,
   <<"t", "o", "L", "o", "c", "a", "l", "e", "S", "t", "r", "i", "n", "g">>,
   <<"v", "a", "l", "u", "e", "O", "f">>,
   <<"h", "a", "s", "O", "w", "n", "P", "r", "o", "p", "e", "r", "t", "y">>,
   <<"i", "s", "P", "r", "o", "t", "o", "t", "y", "p", "e", "O", "f">>,
   <<"p", "r", "o", "p", "e", "r", "t", "y", "I", "s", "E", "n", "u", "m", "e", "r", "a", "b", "l", "e">>,
   <<"_", "_", "d", "e", "f", "i", "n", "e", "G", "e", "t", "t", "e", "r", "_", "_">>,
   <<"_", "_", "d", "e", "f", "i", "n", "e", "S", "e", "t", "t", "e", "r", "_", "_">>,
   <<"_", "_", "l", "o", "o", "k", "u", "p", "G", "e", "t", "t", "e", "r", "_", "_">>,
   <<"_", "_", "l", "o", "o", "k", "u", "p", "S", "e", "t", "t", "e", "r", "_", "_">>}
ConstructorName == <<"c", "o", "n", "s", "t", "r", "u", "c", "t", "o", "r">>
ProtoName == <<"_", "_", "p", "r", "o", "t", "o", "_", "_">>

\* The text of a built-in function of the given name.
NativeFunctionText(name) ==
  <<"f", "u", "n", "c", "t", "i", "o", "n", " ">> \o name
    \o <<"(", ")", " ", "{", " ", "[", "n", "a", "t", "i", "v", "e", " ", "c", "o", "d", "e", "]", " ", "}">>

\* String(value) of what process.env[name] gives for an inherited name: the
\* text of the method, of the nameless constructor of process.env, or of the
\* prototype object.
InheritedText(name) ==
  IF name = ProtoName THEN <<"[", "o", "b", "j", "e", "c", "t", " ", "O", "b", "j", "e", "c", "t", "]">>
  ELSE IF name = ConstructorName THEN NativeFunctionText(<<>>)
  ELSE NativeFunctionText(name)

\* Values of an env or headers entry, as sequences of characters: without a
\* reference, a reference to a set variable, references to a set and an
\* unset variable inside other text, an empty "${}", a "$" without braces,
\* references to names that are no variables but properties process.env
\* inherits.
EnvValues ==
  {<<"p">>,
   <<"$", "{", "A", "}">>,
   <<"x", "$", "{", "A", "}", "-", "$", "{", "B", "}">>,
   <<"$", "{", "}">>,
   <<"$", "A">>,
   <<"$", "{", "t", "o", "S", "t", "r", "i", "n", "g", "}">>,
   <<"x", "$", "{", "_", "_", "p", "r", "o", "t", "o", "_", "_", "}">>}

\* Server entries: command or url, and env and headers absent or holding
\* one key with one of the values.
EnvFields == {Absent} \cup {Some(v) : v \in EnvValues}
EnvConfigs ==
  [command : {TRUE}, url : {FALSE}, env : EnvFields, headers : EnvFields]
    \cup [command : {FALSE}, url : {TRUE}, env : EnvFields, headers : EnvFields]

\* process.env[name] ?? '', as replace() inserts it: the value of a
\* variable that is set, the text of an inherited property, else nothing.
EnvLookup(name) ==
  IF \E e \in ProcessEnv : e.name = name
    THEN (CHOOSE e \in ProcessEnv : e.name = name).value
  ELSE IF name \in InheritedMethods \cup {ConstructorName, ProtoName}
    THEN InheritedText(name)
  ELSE <<>>

\* value.replace(/\$\{([^}]+)\}/g, (_, name) => process.env[name] ?? ''),
\* scanning from position i: a match starts at i when "${" stands there and
\* the first "}" behind it leaves a name of at least one character; what is
\* substituted is not scanned again.
RECURSIVE expandFrom(_, _)
expandFrom(value, i) ==
  IF i > Len(value)
    THEN <<>>
    ELSE LET closing == {j \in (i + 2)..Len(value) : value[j] = "}"}
             j == CHOOSE k \in closing : \A m \in closing : k <= m
         IN IF /\ value[i] = "$"
               /\ i + 1 <= Len(value)
               /\ value[i + 1] = "{"
               /\ closing # {}
               /\ j > i + 2
              THEN EnvLookup(SubSeq(value, i + 2, j - 1)) \o expandFrom(value, j + 1)
              ELSE <<value[i]>> \o expandFrom(value, i + 1)

\* expandEnvVar(value)
expandEnvVar(value) == expandFrom(value, 1)

\* expandEnvVars(config) on one entry: env and headers, when present, have
\* their values expanded; the other fields are copied.
expandEnvVars(serverConfig) ==
  [serverConfig EXCEPT
     !.env = IF serverConfig.env # Absent
               THEN Some(expandEnvVar(serverConfig.env[1])) ELSE Absent,
     !.headers = IF serverConfig.headers # Absent
                   THEN Some(expandEnvVar(serverConfig.headers[1])) ELSE Absent]

\* The options createClient hands to the factory: url and headers to
\* fromHTTP, or command and env to fromStdio.
clientOptions(config) ==
  IF config.url
    THEN [factory |-> "fromHTTP", env |-> Absent, headers |-> config.headers]
    ELSE IF config.command
      THEN [factory |-> "fromStdio", env |-> config.env, headers |-> Absent]
      ELSE [factory |-> "none", env |-> Absent, headers |-> Absent]

\* loadConfig(config) of a configuration with one entry, up to its first
\* await: the entry goes to addServer and createClient as it is.
loadConfigEntry(via, given, config) ==
  /\ mgrOptions.made
  /\ lcPc = "idle"
  /\ launched = NoLaunch
  /\ LET entries == << [name |-> ServerName(1), config |-> config] >>
         r == IF mgrOptions.parallelConnect
                THEN connectParallel(clients, attempts, entries,
                                     mgrOptions.maxConcurrent, 1)
                ELSE connectSequential(clients, attempts, entries, 1)
     IN /\ lcEntries' = entries
        /\ attempts' = r.attempts
        /\ lcChunk' = r.chunk
        /\ lcPc' = r.pc
  /\ launched' = [via |-> via, given |-> Some(given),
                  options |-> Some(clientOptions(config))]
  /\ UNCHANGED <<mgrOptions, clients>>
  /\ UNCHANGED <<cmVars, ptVars, tsmVars, connVars, waitVars, lifeVars>>
  /\ UNCHANGED <<routeVars, regVars, aggVars, pageVars, tokVars, cfgVars, relVars,
                 chunkVars, rootVars>>

\* loadConfig({ mcpServers: { 'server-1': config } })
LoadConfigEnv(config) == loadConfigEntry("loadConfig", config, config)

\* loadConfigFile(path), from the point where the file has been read and
\* parsed to { mcpServers: { 'server-1': config } }: expandEnvVars, then
\* loadConfig of the expanded configuration.
LoadConfigFile(config) ==
  loadConfigEntry("loadConfigFile", config, expandEnvVars(config))

\* What an env or headers value is after every ${NAME} in it has been
\* replaced by the value of NAME, or by nothing when NAME is unset.
Substituted(value) ==
  CASE value = <<"p">> -> <<"p">>
    [] value = <<"$", "{", "A", "}">> -> <<"s", "1">>
    [] value = <<"x", "$", "{", "A", "}", "-", "$", "{", "B", "}">> -> <<"x", "s", "1", "-">>
    [] value = <<"$", "{", "}">> -> <<"$", "{", "}">>
    [] value = <<"$", "A">> -> <<"$", "A">>
    [] value = <<"$", "{", "t", "o", "S", "t", "r", "i", "n", "g", "}">> -> <<>>
    [] value = <<"x", "$", "{", "_", "_", "p", "r", "o", "t", "o", "_", "_", "}">> -> <<"x">>

\* C35: the env value handed to fromStdio and the headers value handed to
\* fromHTTP are the configured values with every ${NAME} replaced, for an
\* entry brought up through loadConfig as well as through loadConfigFile.
C35_EnvExpandedBeforeUse ==
  launched.via # "none" =>
    LET given == launched.given[1]
        options == launched.options[1]
    IN /\ (options.factory = "fromStdio" /\ given.env # Absent) =>
            options.env = Some(Substituted(given.env[1]))
       /\ (options.factory = "fromHTTP" /\ given.headers # Absent) =>
            options.headers = Some(Substituted(given.headers[1]))

(***************************************************************************)
(* CancellationManager: what becomes of each controller handed out.        *)
(***************************************************************************)
\* The controller stored under requestId, if any: the one a complete or a
\* cancel of that id acts on.
Stored(pending, requestId) ==
  IF MapHas(pending, requestId) THEN {pending[requestId]} ELSE {}

\* manager.create(id)
CreateController(id) ==
  /\ Len(controllers) < MaxControllers
  /\ LET r == create(pendingRequests, controllers, id)
     IN /\ pendingRequests' = r.pending
        /\ controllers' = r.controllers
  /\ cmCall' = <<"create", id>>
  /\ UNCHANGED <<aborted, cmRet, released>>
  /\ UNCHANGED <<ptVars, tsmVars, connVars, waitVars, lifeVars, mgrVars>>
  /\ UNCHANGED <<routeVars, regVars, aggVars, pageVars, tokVars, cfgVars, envVars,
                 chunkVars, rootVars>>

\* manager.complete(id)
CompleteController(id) ==
  /\ pendingRequests' = complete(pendingRequests, id)
  /\ released' = released \cup Stored(pendingRequests, id)
  /\ cmCall' = <<"complete", id>>
  /\ UNCHANGED <<controllers, aborted, cmRet>>
  /\ UNCHANGED <<ptVars, tsmVars, connVars, waitVars, lifeVars, mgrVars>>
  /\ UNCHANGED <<routeVars, regVars, aggVars, pageVars, tokVars, cfgVars, envVars,
                 chunkVars, rootVars>>

\* manager.cancel(id)
CancelController(id) ==
  /\ LET r == cancel(pendingRequests, aborted, id)
     IN /\ pendingRequests' = r.pending
        /\ aborted' = r.aborted
        /\ cmRet' = r.ret
  /\ released' = released \cup Stored(pendingRequests, id)
  /\ cmCall' = <<"cancel", id>>
  /\ UNCHANGED controllers
  /\ UNCHANGED <<ptVars, tsmVars, connVars, waitVars, lifeVars, mgrVars>>
  /\ UNCHANGED <<routeVars, regVars, aggVars, pageVars, tokVars, cfgVars, envVars,
                 chunkVars, rootVars>>

\* manager.cancelAll()
CancelAllControllers ==
  /\ LET r == cancelAll(pendingRequests, aborted)
     IN /\ pendingRequests' = r.pending
        /\ aborted' = r.aborted
  /\ cmCall' = <<"cancelAll", NoId>>
  /\ UNCHANGED <<controllers, cmRet, released>>
  /\ UNCHANGED <<ptVars, tsmVars, connVars, waitVars, lifeVars, mgrVars>>
  /\ UNCHANGED <<routeVars, regVars, aggVars, pageVars, tokVars, cfgVars, envVars,
                 chunkVars, rootVars>>

\* C37: when cancelAll() returns, every controller create() has handed out
\* and no complete or cancel has since acted on is aborted, and no request
\* is pending.
C37_CancelAllAbortsEveryLiveController ==
  [][cmCall' = <<"cancelAll", NoId>> =>
       /\ \A c \in 1..Len(controllers) : c \notin released => c \in aborted'
       /\ pendingRequests' = EmptyMap
    ]_vars

(***************************************************************************)
(* connectParallel: the loop that cuts the entries into chunks.            *)
(***************************************************************************)
\* Constructor options with maxConcurrent absent, zero, negative, positive.
ChunkOptions ==
  [parallelConnect : {Absent}, maxConcurrent : {Absent, Some(0), Some(0 - 1), Some(1), Some(2)}]

\* loadConfig(config) in parallel mode, up to the first test of the
\* chunk-building loop of connectParallel: i = 0, chunks = [].
LoadConfigChunks(cfgs) ==
  /\ mgrOptions.made
  /\ mgrOptions.parallelConnect
  /\ lcPc = "idle"
  /\ chunking = NoChunking
  /\ lcEntries' = Entries(cfgs)
  /\ lcPc' = "running"
  /\ chunking' = [pc |-> "building", i |-> 0, chunks |-> <<>>]
  /\ UNCHANGED <<mgrOptions, clients, attempts, lcChunk>>
  /\ UNCHANGED <<cmVars, ptVars, tsmVars, connVars, waitVars, lifeVars>>
  /\ UNCHANGED <<routeVars, regVars, aggVars, pageVars, tokVars, cfgVars, envVars,
                 relVars, rootVars>>

\* One iteration of `for (let i = 0; i < entries.length; i +=
\* this.options.maxConcurrent) chunks.push(entries.slice(i, i +
\* this.options.maxConcurrent))`. The loop has no other exit than its test;
\* the heap holds MaxChunks chunks, and the push that finds it full ends the
\* process with a fatal out-of-memory error: no promise settles after it.
ChunkPush ==
  /\ chunking.pc = "building"
  /\ chunking.i < Len(lcEntries)
  /\ chunking' =
       IF Len(chunking.chunks) < MaxChunks
         THEN [chunking EXCEPT
                 !.chunks = Append(@, slice(Len(lcEntries), chunking.i,
                                            chunking.i + mgrOptions.maxConcurrent)),
                 !.i = @ + mgrOptions.maxConcurrent]
         ELSE [chunking EXCEPT !.pc = "outOfMemory"]
  /\ UNCHANGED mgrVars
  /\ UNCHANGED <<cmVars, ptVars, tsmVars, connVars, waitVars, lifeVars>>
  /\ UNCHANGED <<routeVars, regVars, aggVars, pageVars, tokVars, cfgVars, envVars,
                 relVars, rootVars>>

\* The loop test fails (i >= entries.length): the chunks are connected one
\* after the other, starting with the first.
ChunksBuilt ==
  /\ chunking.pc = "building"
  /\ ~(chunking.i < Len(lcEntries))
  /\ chunking' = [chunking EXCEPT !.pc = "built"]
  /\ LET r == connectParallel(clients, attempts, lcEntries, mgrOptions.maxConcurrent, 1)
     IN /\ attempts' = r.attempts
        /\ lcChunk' = r.chunk
        /\ lcPc' = r.pc
  /\ UNCHANGED <<mgrOptions, clients, lcEntries>>
  /\ UNCHANGED <<cmVars, ptVars, tsmVars, connVars, waitVars, lifeVars>>
  /\ UNCHANGED <<routeVars, regVars, aggVars, pageVars, tokVars, cfgVars, envVars,
                 relVars, rootVars>>

\* C39: a parallel loadConfig, once called, resolves, whatever value
\* maxConcurrent was constructed with (zero and negative values included),
\* and when it has resolved every entry of the configuration has been
\* attempted exactly once.
C39_ParallelLoadConfigTerminates ==
  /\ (chunking.pc = "building") ~> (lcPc = "resolved")
  /\ [](lcPc = "resolved" =>
          \A e \in DOMAIN lcEntries :
            Cardinality({a \in DOMAIN attempts :
                           attempts[a].origin = "loadConfig"
                           /\ attempts[a].entry = e}) = 1)

(***************************************************************************)
(* RootsHandler and the roots operations of the client.                    *)
(***************************************************************************)
RootUris == {"file:///a", "file:///b"}
RootRecords == [uri : RootUris, name : {Absent, Some("A")}]

\* Lists given as capabilities.roots.roots, options.roots or to setRoots:
\* empty, one root, two roots, two roots with one URI.
RootLists ==
  {<<>>,
   <<[uri |-> "file:///a", name |-> Absent]>>,
   <<[uri |-> "file:///a", name |-> Absent], [uri |-> "file:///b", name |-> Some("A")]>>,
   <<[uri |-> "file:///a", name |-> Absent], [uri |-> "file:///a", name |-> Some("A")]>>}

\* The listener the client registers, and listeners of a direct user of a
\* RootsHandler: one that returns and one that throws.
Forwarder == "forward"
RootListeners == {"cbA", "cbThrow"}

\* capabilities.roots.listChanged
ListChangedOptions == {Absent, Some(TRUE), Some(FALSE)}

\* this.roots.some((r) => r.uri === uri)
hasRoot(rs, uri) == \E i \in DOMAIN rs : rs[i].uri = uri

\* setRoots(roots): the list is replaced and the listeners are notified.
setRoots(rs, newRoots) == [roots |-> newRoots, notify |-> TRUE, ret |-> FALSE]

\* addRoot that notifies the listeners also when the URI is present.
addRoot_NotifiesDuplicate(rs, root) ==
  IF hasRoot(rs, root.uri)
    THEN [roots |-> rs, notify |-> TRUE, ret |-> FALSE]
    ELSE [roots |-> Append(rs, root), notify |-> TRUE, ret |-> FALSE]

\* addRoot(root): returns at once when a root with the URI exists, otherwise
\* pushes a copy and notifies.
addRoot(rs, root) ==
  IF hasRoot(rs, root.uri)
    THEN [roots |-> rs, notify |-> FALSE, ret |-> FALSE]
    ELSE [roots |-> Append(rs, root), notify |-> TRUE, ret |-> FALSE]

\* removeRoot(uri): findIndex, false when -1, otherwise splice(index, 1),
\* notify, true.
removeRoot(rs, uri) ==
  IF ~hasRoot(rs, uri)
    THEN [roots |-> rs, notify |-> FALSE, ret |-> FALSE]
    ELSE LET index == CHOOSE i \in DOMAIN rs :
                        rs[i].uri = uri /\ \A j \in 1..(i - 1) : rs[j].uri # uri
         IN [roots |-> SubSeq(rs, 1, index - 1) \o SubSeq(rs, index + 1, Len(rs)),
             notify |-> TRUE, ret |-> TRUE]

\* notifyChange(): every listener is called in order, what it throws is
\* ignored; the client's listener hands a notifications/roots/list_changed
\* to the SDK client if this.connected.
notifyChange(listeners, isConnected) ==
  [called |-> listeners,
   sent |-> Cardinality({i \in DOMAIN listeners :
                           listeners[i] = Forwarder /\ isConnected})]

\* new RootsHandler({ roots }) used on its own.
NewRootsHandler(initial) ==
  /\ rootsHandler = "none"
  /\ cpc = "new"
  /\ rootsHandler' = "standalone"
  /\ roots' = initial
  /\ UNCHANGED <<changeListeners, rootClosures, rootOp>>
  /\ UNCHANGED <<cmVars, ptVars, tsmVars, connVars, waitVars, lifeVars, mgrVars>>
  /\ UNCHANGED <<routeVars, regVars, aggVars, pageVars, tokVars, cfgVars, envVars,
                 relVars, chunkVars>>

\* The client's constructor with capabilities.roots = { roots: initial,
\* listChanged }: setupCapabilityHandlers makes the handler and, unless
\* listChanged is false, registers the forwarding listener.
SetupRoots(initial, listChanged) ==
  /\ rootsHandler = "none"
  /\ cpc = "new"
  /\ rootsHandler' = "client"
  /\ roots' = initial
  /\ changeListeners' = IF listChanged # Some(FALSE) THEN <<Forwarder>> ELSE <<>>
  /\ UNCHANGED <<rootClosures, rootOp>>
  /\ UNCHANGED <<cmVars, ptVars, tsmVars, connVars, waitVars, lifeVars, mgrVars>>
  /\ UNCHANGED <<routeVars, regVars, aggVars, pageVars, tokVars, cfgVars, envVars,
                 relVars, chunkVars>>

\* handler.onRootsChanged(callback) on a handler used on its own.
OnRootsChanged(cb) ==
  /\ rootsHandler = "standalone"
  /\ Len(rootClosures) < MaxListeners
  /\ changeListeners' = Append(changeListeners, cb)
  /\ rootClosures' = Append(rootClosures, cb)
  /\ UNCHANGED <<rootsHandler, roots, rootOp>>
  /\ UNCHANGED <<cmVars, ptVars, tsmVars, connVars, waitVars, lifeVars, mgrVars>>
  /\ UNCHANGED <<routeVars, regVars, aggVars, pageVars, tokVars, cfgVars, envVars,
                 relVars, chunkVars>>

\* The closure returned by the k-th onRootsChanged call: indexOf(callback),
\* and splice when found.
RootsUnsubscribe(k) ==
  /\ k \in DOMAIN rootClosures
  /\ LET cb == rootClosures[k]
         found == {i \in DOMAIN changeListeners : changeListeners[i] = cb}
         index == CHOOSE i \in found : \A j \in found : i <= j
     IN changeListeners' =
          IF found = {} THEN changeListeners
          ELSE SubSeq(changeListeners, 1, index - 1)
                 \o SubSeq(changeListeners, index + 1, Len(changeListeners))
  /\ UNCHANGED <<rootsHandler, roots, rootClosures, rootOp>>
  /\ UNCHANGED <<cmVars, ptVars, tsmVars, connVars, waitVars, lifeVars, mgrVars>>
  /\ UNCHANGED <<routeVars, regVars, aggVars, pageVars, tokVars, cfgVars, envVars,
                 relVars, chunkVars>>

\* One of setRoots / addRoot / removeRoot, on the handler itself or through
\* the client that owns it; r is what the operation does to the list. A
\* client without roots capability throws.
RootsOperation(op, arg, r) ==
  /\ rootOp.n < MaxRootOps
  /\ \/ rootsHandler = "standalone"
     \/ rootsHandler \in {"client", "none"} /\ cpc = "returned"
  /\ IF rootsHandler = "none"
       THEN /\ rootOp' = [NoRootOp EXCEPT !.n = rootOp.n + 1, !.op = op, !.arg = arg,
                                          !.error = TRUE]
            /\ UNCHANGED roots
       ELSE LET note == IF r.notify THEN notifyChange(changeListeners, connected)
                                   ELSE [called |-> <<>>, sent |-> 0]
            IN /\ roots' = r.roots
               /\ rootOp' = [n |-> rootOp.n + 1, op |-> op, arg |-> arg, ret |-> r.ret,
                             error |-> FALSE, called |-> note.called,
                             sent |-> note.sent]
  /\ UNCHANGED <<rootsHandler, changeListeners, rootClosures>>
  /\ UNCHANGED <<cmVars, ptVars, tsmVars, connVars, waitVars, lifeVars, mgrVars>>
  /\ UNCHANGED <<routeVars, regVars, aggVars, pageVars, tokVars, cfgVars, envVars,
                 relVars, chunkVars>>

\* setRoots(roots)
SetRoots(newRoots) == RootsOperation("setRoots", newRoots, setRoots(roots, newRoots))

\* addRoot(root)
AddRoot(root) == RootsOperation("addRoot", root, addRoot(roots, root))

\* removeRoot(uri)
RemoveRoot(uri) == RootsOperation("removeRoot", uri, removeRoot(roots, uri))

\* C40: setRoots, addRoot of a URI not in the list and removeRoot of a URI
\* in the list call every registered listener exactly once, in order;
\* addRoot of a URI in the list and removeRoot of a URI not in it call no
\* listener and leave the list as it is; a roots/list_changed notification
\* is handed to the SDK client only by such a change made while the client
\* is connected, and then once.
C40_RootChangeNotifiedOnce ==
  [][(rootOp'.n = rootOp.n + 1 /\ ~rootOp'.error) =>
       LET present(uri) == \E i \in DOMAIN roots : roots[i].uri = uri
           changes == CASE rootOp'.op = "setRoots" -> TRUE
                        [] rootOp'.op = "addRoot" -> ~present(rootOp'.arg.uri)
                        [] rootOp'.op = "removeRoot" -> present(rootOp'.arg)
       IN /\ rootOp'.called = IF changes THEN changeListeners ELSE <<>>
          /\ ~changes => roots' = roots
          /\ rootOp'.sent > 0 => (changes /\ connected)
          /\ rootOp'.sent <= 1
          /\ (changes /\ connected /\ changeListeners = <<"forward">>) =>
               rootOp'.sent = 1
    ]_vars

\* On a client whose connection has been closed, addRoot of a new URI has
\* just called the client's listener, and nothing was sent to the server.
C40_Witness ==
  /\ rootsHandler = "client"
  /\ ~connected
  /\ closeLog # <<>>
  /\ rootOp.n = 2
  /\ rootOp.op = "addRoot"
  /\ rootOp.called = <<"forward">>
  /\ rootOp.sent = 0
  /\ Len(roots) = 2

(***************************************************************************)
(* Token generators under an arbitrary clock.                              *)
(***************************************************************************)
\* Values Date.now() may return, in any order.
ClockValues == 0..MaxTime

\* The clock is read as t by the next Date.now(): later, equal or earlier
\* than the last reading.
ClockReturns(t) ==
  /\ now' = t
  /\ UNCHANGED <<cpc, connectError, connected, transportCloses, closeAwaiting,
                 closeLog, ptCounter, cmCounter, progCalls, cancOps, notifications>>
  /\ UNCHANGED <<cmVars, ptVars, tsmVars, waitVars>>
  /\ UNCHANGED <<lifeVars, mgrVars, routeVars, regVars, aggVars, pageVars, tokVars,
                 cfgVars, envVars, relVars, chunkVars, rootVars>>

\* progressTracker.generateToken()
GenerateToken ==
  /\ Len(tokens) < MaxTokens
  /\ tokens' = Append(tokens, generateToken(now, ptCounter))
  /\ ptCounter' = ptCounter + 1
  /\ UNCHANGED requestIds
  /\ UNCHANGED <<now, cpc, connectError, connected, transportCloses, closeAwaiting,
                 closeLog, cmCounter, progCalls, cancOps, notifications>>
  /\ UNCHANGED <<cmVars, ptVars, tsmVars, waitVars>>
  /\ UNCHANGED <<lifeVars, mgrVars, routeVars, regVars, aggVars, pageVars, cfgVars,
                 envVars, relVars, chunkVars, rootVars>>

\* cancellationManager.generateRequestId()
GenerateRequestId ==
  /\ Len(requestIds) < MaxTokens
  /\ requestIds' = Append(requestIds, generateRequestId(now, cmCounter))
  /\ cmCounter' = cmCounter + 1
  /\ UNCHANGED tokens
  /\ UNCHANGED <<now, cpc, connectError, connected, transportCloses, closeAwaiting,
                 closeLog, ptCounter, progCalls, cancOps, notifications>>
  /\ UNCHANGED <<cmVars, ptVars, tsmVars, waitVars>>
  /\ UNCHANGED <<lifeVars, mgrVars, routeVars, regVars, aggVars, pageVars, cfgVars,
                 envVars, relVars, chunkVars, rootVars>>

\* C32: the tokens one tracker's generateToken has returned are pairwise
\* distinct, and so are the ids one manager's generateRequestId has
\* returned, whatever the clock read between the calls.
C32_TokensPairwiseDistinct ==
  /\ \A i, j \in DOMAIN tokens : i # j => tokens[i] # tokens[j]
  /\ \A i, j \in DOMAIN requestIds : i # j => requestIds[i] # requestIds[j]

\* Three tokens and three request ids have been generated while the clock
\* stood still and then went back.
C32_Witness ==
  /\ Len(tokens) >= 3
  /\ SubSeq(tokens, 1, 3) = <<"progress-1-0", "progress-1-1", "progress-0-2">>
  /\ Len(requestIds) >= 3
  /\ SubSeq(requestIds, 1, 3) = <<"req-1-0", "req-1-1", "req-0-2">>

\* C33: isConnected() becomes true only when the connect of a factory wins
\* its race, on a connection no close has been called on; it becomes false
\* only when a close() that was awaiting the transport settles; and once a
\* close() has returned, no operation makes it true again.
C33_ClosedIsTerminal ==
  [][/\ (~connected /\ connected') =>
          /\ cpc = "racing" /\ cpc' = "returned"
          /\ handshake'.state = "resolved"
          /\ closeLog = <<>> /\ closeAwaiting = 0
     /\ (connected /\ ~connected') =>
          /\ closeAwaiting > 0
          /\ Len(closeLog') = Len(closeLog) + 1
     /\ closeLog # <<>> => ~connected'
    ]_vars

\* A connection was closed (the transport's close failed), and afterwards a
\* request, a second close and a cancellable call were made on it: it is
\* still disconnected.
C33_Witness ==
  /\ Len(closeLog) = 2
  /\ closeLog[1] = "rejected"
  /\ closeLog[2] = "noop"
  /\ opCount > 0
  /\ opError = "MCPConnectionError"
  /\ cancOps # <<>>
  /\ ~connected

\* C36: whenever a close() has settled and the connection is disconnected,
\* the progress tracker holds no token, the cancellation manager no pending
\* request and the task-status manager no subscription, whatever has been
\* invoked on the connection since the close.
C36_ClosedRegistriesStayEmpty ==
  (closeLog # <<>> /\ ~connected) =>
    /\ DOMAIN progressCallbacks = {}
    /\ DOMAIN pendingRequests = {}
    /\ DOMAIN taskCallbacks = {}

\* C38: when several clients handed to aggregateMCPTools report the same
\* identity, aggregateMCPTools still returns a Map; for each tool name of
\* such a client the entry "<identity>.<tool>" belongs to the last of these
\* clients, in input order, that exposes the tool - the later client for a
\* tool both expose, the earlier client for a tool only it exposes - and
\* routeMCPToolCall with that key calls that client. (Keys that a client of
\* another identity produces as well are left aside.) aggregateMCPTools
\* rejects only when a listAllTools() it awaited rejected.
C38_SameIdentityLastWriteWins ==
  /\ aggOp.pc = "rejected" => aggOp.reply = "rejected"
  /\ aggOp.pc = "resolved" <=> toolMap # Absent
  /\ toolMap # Absent =>
      LET m == toolMap[1]
          nameOf(c) == IF aggClients[c].identity = Absent
                         THEN <<"unknown">> ELSE aggClients[c].identity[1]
          exposes(c, tool) == \E t \in DOMAIN aggClients[c].tools :
                                aggClients[c].tools[t] = tool
          keyOf(c, tool) == nameOf(c) \o <<".">> \o tool
      IN \A c, d \in DOMAIN aggClients :
           (c < d /\ nameOf(c) = nameOf(d)) =>
             \A t \in DOMAIN aggClients[c].tools :
               LET tool == aggClients[c].tools[t]
                   sharers == {e \in DOMAIN aggClients :
                                 nameOf(e) = nameOf(c) /\ exposes(e, tool)}
                   last == CHOOSE e \in sharers : \A f \in sharers : f <= e
                   foreign == \E e \in DOMAIN aggClients :
                                /\ nameOf(e) # nameOf(c)
                                /\ \E u \in DOMAIN aggClients[e].tools :
                                     keyOf(e, aggClients[e].tools[u]) = keyOf(c, tool)
               IN ~foreign =>
                    /\ Cardinality({i \in DOMAIN m : m[i].key = keyOf(c, tool)}) = 1
                    /\ \A i \in DOMAIN m :
                         m[i].key = keyOf(c, tool) =>
                           m[i].client = last /\ m[i].originalName = tool
                    /\ routed.key = keyOf(c, tool) =>
                         /\ routed.error = "none"
                         /\ routed.client = last
                         /\ routed.arg = tool

\* Two clients both named "a", the first exposing c and b.c, the second c:
\* the Map has two entries, a.c of the second client and a.b.c of the first,
\* and a.c has just been routed to the second client.
C38_Witness ==
  /\ toolMap # Absent
  /\ Len(aggClients) = 2
  /\ aggClients[1] = [identity |-> Some(<<"a">>), tools |-> <<<<"c">>, <<"b", ".", "c">>>>]
  /\ aggClients[2] = [identity |-> Some(<<"a">>), tools |-> <<<<"c">>>>]
  /\ Len(toolMap[1]) = 2
  /\ \E i \in DOMAIN toolMap[1] :
       toolMap[1][i].key = <<"a", ".", "c">> /\ toolMap[1][i].client = 2
  /\ \E i \in DOMAIN toolMap[1] :
       toolMap[1][i].key = <<"a", ".", "b", ".", "c">> /\ toolMap[1][i].client = 1
  /\ routed.key = <<"a", ".", "c">>
  /\ routed.client = 2

\* C31: a progress callback that throws during dispatch is caught at the
\* dispatch site: neither ProgressTracker.handleProgress nor the connection's
\* notifications/progress handler lets an exception out.
C31_ProgressCallbackFailureDiscarded ==
  [][ptCall' \in {"handleProgress", "notification"} => hpThrew' = FALSE]_vars

(***************************************************************************)
(* Specifications, one per component.                                      *)
(***************************************************************************)
NextCM ==
  \/ \E id \in ReqIds : CMCreate(id)
  \/ \E id \in ReqIds : CMComplete(id)
  \/ \E id \in ReqIds : CMCancel(id)
  \/ CMCancelAll

SpecCM == Init /\ [][NextCM]_vars

NextPT ==
  \/ \E t \in Tokens, cb \in Callbacks : PTRegister(t, cb)
  \/ \E t \in Tokens : PTUnregister(t)
  \/ \E n \in Notifications : PTHandleProgress(n)
  \/ \E params \in Notifications : PTNotification(params)
  \/ PTClear

SpecPT == Init /\ [][NextPT]_vars

NextTSM ==
  \/ \E t \in TaskIds, cb \in Callbacks : TSMSubscribe(t, cb)
  \/ \E k \in 1..MaxSubs : TSMUnsubscribe(k)
  \/ \E task \in PushedTasks : TSMHandleStatus(task)
  \/ TSMClear

SpecTSM == Init /\ [][NextTSM]_vars

NextConn ==
  \/ ConnectBegin
  \/ HandshakeResolves
  \/ \E cause \in HandshakeCauses : HandshakeRejects(cause)
  \/ ConnectTimeout
  \/ \E ok \in BOOLEAN : ConnectTimeoutClosed(ok)
  \/ ConnCloseCall
  \/ \E ok \in BOOLEAN : CloseSettle(ok)
  \/ \E cb \in ConnCallbacks : Len(progCalls) < MaxCalls /\ CallToolWithProgress(cb)
  \/ \E cb \in ConnCallbacks : Len(progCalls) < MaxCalls /\ ReadResourceWithProgress(cb)
  \/ \E i \in 1..MaxCalls, ok \in BOOLEAN : ProgressCallSettle(i, ok)
  \/ CancellableStart
  \/ \E i \in 1..MaxOps, ok \in BOOLEAN : CancellableSettle(i, ok)
  \/ \E id \in KnownRequestIds : CancelRequest(id)
  \/ \E i \in 1..MaxOps : CancelClosure(i)
  \/ \E t \in ConnTaskIds, cb \in ConnCallbacks : OnTaskStatus(t, cb)
  \/ \E k \in 1..MaxConnSubs : OnTaskStatusUnsubscribe(k)

SpecConn == Init /\ [][NextConn]_vars

\* One connection and its progress-aware calls, up to MaxProgressCalls of
\* them, overlapping each other and a close(), at any time of the clock.
NextProg ==
  \/ ConnectBegin
  \/ HandshakeResolves
  \/ Tick
  \/ ConnCloseCall
  \/ \E ok \in BOOLEAN : CloseSettle(ok)
  \/ \E cb \in ConnCallbacks : CallToolWithProgress(cb)
  \/ \E cb \in ConnCallbacks : ReadResourceWithProgress(cb)
  \/ \E i \in 1..MaxProgressCalls, ok \in BOOLEAN : ProgressCallSettle(i, ok)

SpecProg == Init /\ [][NextProg]_vars

\* The life cycle of one connection: the factories with their options, the
\* race of handshake and timer, plain requests, close().
NextLife ==
  \/ \E o \in ConnectionTimeoutOptions : FromStdio(o)
  \/ \E o \in ConnectionTimeoutOptions, url \in HttpUrls : FromHTTP(o, url)
  \/ HandshakeResolves
  \/ \E cause \in HandshakeCauses : HandshakeRejects(cause)
  \/ ConnectTimeout
  \/ \E ok \in BOOLEAN : ConnectTimeoutClosed(ok)
  \/ \E ok \in BOOLEAN, cause \in HandshakeCauses : LateHandshake(ok, cause)
  \/ \E op \in RequestOps : Request(op)
  \/ \E cb \in ConnCallbacks : CallToolWithProgress(cb)
  \/ CancellableStart
  \/ CloseCall
  \/ \E ok \in BOOLEAN : CloseSettle(ok)

SpecLife == Init /\ [][NextLife]_vars

\* One MCPClientManager: direct addServer calls and one loadConfig.
NextMgr ==
  \/ \E o \in ManagerOptions : NewManager(o)
  \/ \E config \in ServerConfigs : AddServer(ServerName(1), config)
  \/ \E cfgs \in ConfigInputs : LoadConfig(cfgs)
  \/ LoadConfigResumes
  \/ \E i \in 1..(MaxAdds + MaxServers), ok \in BOOLEAN : CreateClientSettles(i, ok)

SpecMgr == Init /\ [][NextMgr]_vars

\* One MCPClientManager in parallel mode: one loadConfig of up to MaxEntries
\* entries and direct addServer calls.
NextPar ==
  \/ \E o \in ParallelOptions : NewManager(o)
  \/ \E config \in ParallelServerConfigs : AddServer(ServerName(1), config)
  \/ \E cfgs \in ParallelConfigInputs : LoadConfig(cfgs)
  \/ LoadConfigResumes
  \/ \E i \in 1..(MaxAdds + MaxEntries), ok \in BOOLEAN : CreateClientSettles(i, ok)

SpecPar == Init /\ [][NextPar]_vars

\* One MCPClientManager with its servers loaded from a configuration, and
\* the aggregated API used on it.
NextRoute ==
  \/ NewManager([parallelConnect |-> Absent, maxConcurrent |-> Absent])
  \/ \E entries \in RouteConfigs : loadConfig(entries)
  \/ LoadConfigResumes
  \/ \E i \in 1..MaxServers, ok \in BOOLEAN : CreateClientSettles(i, ok)
  \/ \E name \in CallNames : MgrCallTool(name)
  \/ \E kind \in ListKinds : MgrListAll(kind)
  \/ \E ok \in BOOLEAN, items \in ItemLists : MgrListSettles(ok, items)
  \/ \E uri \in Uris : MgrReadResource(uri)
  \/ \E ok \in BOOLEAN : MgrReadSettles(ok)

SpecRoute == Init /\ [][NextRoute]_vars

\* The same manager with one server removed, or all of them closed, while a
\* listAll* or a readResource awaits a connection.
NextIter ==
  \/ NewManager([parallelConnect |-> Absent, maxConcurrent |-> Absent])
  \/ \E entries \in RouteConfigs : loadConfig(entries)
  \/ LoadConfigResumes
  \/ \E i \in 1..MaxServers, ok \in BOOLEAN : CreateClientSettles(i, ok)
  \/ \E kind \in ListKinds : MgrListAll(kind)
  \/ \E ok \in BOOLEAN, items \in ItemLists : MgrListSettles(ok, items)
  \/ \E uri \in Uris : MgrReadResource(uri)
  \/ \E ok \in BOOLEAN : MgrReadSettles(ok)
  \/ \E name \in RouteServerNames :
       mgrOp.status = "awaiting" /\ rmOps = <<>> /\ closeOps = <<>> /\ RemoveServer(name)
  \/ mgrOp.status = "awaiting" /\ rmOps = <<>> /\ CloseAll
  \/ CloseAllResumes(1)
  \/ \E i \in 1..(MaxRemoves + MaxServers), ok \in BOOLEAN :
       ClientCloseSettles(i, ok)
  \/ \E r \in 1..MaxRemoves : RemoveServerResumes(r)

SpecIter == Init /\ [][NextIter]_vars

\* One MCPClientManager whose servers are removed and closed again; one
\* closeAll, or one closeAllMCPClients on the clients it created.
NextReg ==
  \/ NewManager([parallelConnect |-> Absent, maxConcurrent |-> Absent])
  \/ \E cfgs \in RegConfigInputs : LoadConfig(cfgs)
  \/ LoadConfigResumes
  \/ \E i \in 1..MaxServers, ok \in BOOLEAN : CreateClientSettles(i, ok)
  \/ \E name \in RemoveNames : RemoveServer(name)
  \/ CloseAll
  \/ \E arr \in ClientArrays : CloseAllMCPClients(arr)
  \/ CloseAllResumes(1)
  \/ \E i \in 1..(MaxRemoves + MaxServers), ok \in BOOLEAN :
       ClientCloseSettles(i, ok)
  \/ \E r \in 1..MaxRemoves : RemoveServerResumes(r)

SpecReg == Init /\ [][NextReg]_vars

\* aggregateMCPTools on an array of clients, then routeMCPToolCall on the
\* Map it returned.
NextAgg ==
  \/ \E cls \in AggInputs : Aggregate(cls)
  \/ \E ok \in BOOLEAN : AggregateListSettles(ok)
  \/ AggregateReturns
  \/ \E key \in RouteKeys : Route(key)

SpecAgg == Init /\ [][NextAgg]_vars

\* One connection and one listAll* call on it.
NextPage ==
  \/ ConnectBegin
  \/ HandshakeResolves
  \/ ConnCloseCall
  \/ \E ok \in BOOLEAN : CloseSettle(ok)
  \/ \E kind \in ListKinds : ListAll(kind)
  \/ \E ok \in BOOLEAN, page \in Pages : ListPageSettles(ok, page)
  \/ ListPageRefused

SpecPage == Init /\ [][NextPage]_vars

\* validateMCPConfig on configurations of every shape, and addServer of
\* entries of every shape on one manager.
NextCfg ==
  \/ NewManager([parallelConnect |-> Absent, maxConcurrent |-> Absent])
  \/ \E config \in ShapeInputs : ValidateMCPConfig(config)
  \/ \E config \in ShapeConfigs : AddServerShape(ServerName(1), config)
  \/ \E i \in 1..MaxAdds, ok \in BOOLEAN : CreateClientSettles(i, ok)

SpecCfg == Init /\ [][NextCfg]_vars

\* One manager bringing up one server entry whose env and headers values
\* refer to environment variables.
NextEnv ==
  \/ NewManager([parallelConnect |-> Absent, maxConcurrent |-> Absent])
  \/ \E config \in EnvConfigs : LoadConfigEnv(config)
  \/ \E config \in EnvConfigs : LoadConfigFile(config)
  \/ LoadConfigResumes
  \/ \E ok \in BOOLEAN : CreateClientSettles(1, ok)

SpecEnv == Init /\ [][NextEnv]_vars

\* One CancellationManager whose callers choose the request ids.
NextRel ==
  \/ \E id \in ReqIds : CreateController(id)
  \/ \E id \in ReqIds : CompleteController(id)
  \/ \E id \in ReqIds : CancelController(id)
  \/ CancelAllControllers

SpecRel == Init /\ [][NextRel]_vars

\* One manager constructed with any maxConcurrent and one parallel
\* loadConfig, its chunk-building loop taken one iteration at a time. The
\* loop is synchronous code and runs on while it can; every connection
\* attempt settles, at the latest through its connection timeout.
NextChunk ==
  \/ \E o \in ChunkOptions : NewManager(o)
  \/ \E cfgs \in ConfigInputs : LoadConfigChunks(cfgs)
  \/ ChunkPush
  \/ ChunksBuilt
  \/ LoadConfigResumes
  \/ \E i \in 1..MaxServers, ok \in BOOLEAN : CreateClientSettles(i, ok)

SpecChunk ==
  /\ Init
  /\ [][NextChunk]_vars
  /\ WF_vars(ChunkPush)
  /\ WF_vars(ChunksBuilt)
  /\ WF_vars(LoadConfigResumes)
  /\ WF_vars(\E i \in 1..MaxServers, ok \in BOOLEAN : CreateClientSettles(i, ok))

\* One RootsHandler: on its own with listeners of its user, or inside a
\* client that is connected, used and closed.
NextRoots ==
  \/ \E initial \in RootLists : NewRootsHandler(initial)
  \/ \E initial \in RootLists, listChanged \in ListChangedOptions :
       SetupRoots(initial, listChanged)
  \/ ConnectBegin
  \/ HandshakeResolves
  \/ ConnCloseCall
  \/ \E ok \in BOOLEAN : CloseSettle(ok)
  \/ \E cb \in RootListeners : OnRootsChanged(cb)
  \/ \E k \in 1..MaxListeners : RootsUnsubscribe(k)
  \/ \E newRoots \in RootLists : SetRoots(newRoots)
  \/ \E root \in RootRecords : AddRoot(root)
  \/ \E uri \in RootUris : RemoveRoot(uri)

SpecRoots == Init /\ [][NextRoots]_vars

\* One ProgressTracker and one CancellationManager generating tokens while
\* the clock moves freely.
NextTok ==
  \/ \E t \in ClockValues : ClockReturns(t)
  \/ GenerateToken
  \/ GenerateRequestId

SpecTok == Init /\ [][NextTok]_vars

NextWait ==
  \/ Tick
  \/ \E t \in TaskIds, o \in WaitOptions : WaitStart(t, o)
  \/ \E st \in TaskStates : GetTaskReturns(st)
  \/ GetTaskThrows
  \/ SleepElapsed
  \/ Abort
  \/ SleepRejected
  \/ \E ok \in BOOLEAN, v \in ResultPayloads : GetTaskResultSettles(ok, v)
  \/ \E st \in TaskStates : WaitStatusPush(st)

SpecWait == Init /\ [][NextWait]_vars

====
